---- MODULE Spec2Model ----
(***************************************************************************)
(* The extraction / repair / resolution pipeline of the cellular template  *)
(* processor: process_file_streamlit (src/app.py) with the helpers of      *)
(* src/data_processor.py and src/excel_handler.py.  The Vision Analyzer    *)
(* (src/api_client.py) is an oracle: each of its calls returns one reply   *)
(* of a bounded set of JSON values, None included.                         *)
(***************************************************************************)
EXTENDS Integers, Sequences, FiniteSets, TLC

VARIABLES
    user_file,                \* the uploaded file: exists, suffix, readable, images, exprs, saved
    image_paths,              \* app.py:61  what extract_images_from_excel returned
    images_by_sector,         \* app.py:72  sector -> list of image paths
    schedule,                 \* the loop iterations the passes run over images_by_sector
    service,                  \* data_processor.py:13-15  <sector>_service
    speedtest,                \* data_processor.py:16-18  <sector>_speedtest
    video,                    \* data_processor.py:19-21  <sector>_video
    voice_test,               \* data_processor.py:22
    extract_text,             \* data_processor.py:23
    avearge,                  \* data_processor.py:24
    retried_service_sectors,  \* app.py:135
    retried_images,           \* app.py:136
    pc,                       \* where process_file_streamlit stands
    step,                     \* index of the next loop iteration of the passes
    status,                   \* running | returned | aborted | raised
    phase,                    \* phase of the last iteration that ran
    calls,                    \* history: the analyzer invocations, in order
    last_calls,               \* the invocations of the last step, with whether each returned None
    helper_log,               \* history: the invocations of _retry_image_and_merge
    cells,                    \* the marked cells the scan listed: what was assigned to each
    fn, args, ret             \* a pure function applied to drawn inputs

vars == <<user_file, image_paths, images_by_sector, schedule, service, speedtest, video,
          voice_test, extract_text, avearge, retried_service_sectors,
          retried_images, pc, step, status, phase, calls,
          last_calls, helper_log,
          cells, fn, args, ret>>

inputVars == <<user_file, image_paths, images_by_sector, schedule>>

storeVars == <<service, speedtest, video, voice_test>>

pureVars == <<fn, args, ret>>

-----------------------------------------------------------------------------
(* Bounds of the model *)

\* images embedded in one sheet
MaxImages == 3

\* of them in the voicetest columns
MaxVoice == 1

\* images of one sheet whose save fails (excel_handler.py:80-81)
MaxFailedSaves == 1

-----------------------------------------------------------------------------
(* JSON values.  Python's None and JSON null are one value. *)

Null == [null |-> TRUE]

Num(n) == [num |-> n]

Str(s) == [str |-> s]

Dict(f) == [dict |-> f]

EmptyDict == <<>>

IsDict(v) == "dict" \in DOMAIN v

\* Python truth value of a reply: None and the empty dict are false
Truthy(v) ==
    /\ v # Null
    /\ IsDict(v) => DOMAIN v.dict # {}

\* dict.get(k): None for an absent key
Get(d, k) == IF k \in DOMAIN d THEN d[k] ELSE Null

\* dict.get(k, default)
GetOr(d, k, default) == IF k \in DOMAIN d THEN d[k] ELSE default

\* d[k] = v
Put(d, k, v) == [x \in DOMAIN d \cup {k} |-> IF x = k THEN v ELSE d[x]]

\* the elements of a sequence
Range(s) == {s[i] : i \in DOMAIN s}

-----------------------------------------------------------------------------
(* config.py *)

SERVICE_SCHEMA ==
    <<"nr_arfcn", "nr_band", "nr_pci", "nr_bw", "nr5g_rsrp", "nr5g_rsrq",
      "nr5g_sinr", "lte_band", "lte_earfcn", "lte_pci", "lte_bw", "lte_rsrp",
      "lte_rsrq", "lte_sinr">>

GENERIC_SCHEMAS ==
    [speed_test |-> <<"download_mbps", "upload_mbps", "ping_ms", "jitter_ms">>,
     video_test |-> <<"max_resolution", "load_time_ms", "buffering_percentage">>,
     voice_call |-> <<"phone_number", "call_duration_seconds", "call_status", "time">>]

\* the sectors that carry a service slot, in the order the loops visit them
SERVICE_SECTORS == <<"alpha", "beta", "gamma">>

ALL_SECTORS == {"alpha", "beta", "gamma", "voicetest", "unknown"}

-----------------------------------------------------------------------------
(* Images.  A saved image is <sector>_image_<n>.png in the images folder   *)
(* (excel_handler.py:66-67); its stem is the image's name.                 *)

Name(s, k) == [sector |-> s, n |-> k]

\* os.path.join(images_temp, f"{image_name}.png")
TempPath(name) == [dir |-> "images", stem |-> name]

\* Path(p).stem
Stem(p) == p.stem

\* next((p for p in sector_images if Path(p).stem.endswith("_image_<k>")), None)
PairedImage(ibs, s, k) ==
    LET m == SelectSeq(ibs[s], LAMBDA p : Stem(p).n = k)
    IN  IF m = <<>> THEN Null ELSE m[1]

\* the mutation of HasPair that is content with one image of the pair
HasPairEither(ibs, s) == PairedImage(ibs, s, 1) # Null \/ PairedImage(ibs, s, 2) # Null

\* img1 and img2
HasPair(ibs, s) == PairedImage(ibs, s, 1) # Null /\ PairedImage(ibs, s, 2) # Null

\* the images of a sector that are neither _image_1 nor _image_2
OtherImages(ibs, s) == SelectSeq(ibs[s], LAMBDA p : ~(Stem(p).n = 1 \/ Stem(p).n = 2))

\* the files of the images folder: every listed path was saved (excel_handler.py:72-73)
Files(ibs) == UNION {Range(ibs[s]) : s \in DOMAIN ibs}

-----------------------------------------------------------------------------
(* data_processor.py *)

\* the mutation of MergeFields that overwrites, as dict.update does
MergeFieldsOverwrite(target, new) ==
    [k \in DOMAIN target \cup DOMAIN new |->
        IF k \in DOMAIN new THEN new[k] ELSE target[k]]

\* the mutation of MergeFields that stops at the first field it fills
MergeFieldsOneField(target, new) ==
    LET fill == {k \in DOMAIN new :
                    new[k] # Null /\ (k \notin DOMAIN target \/ target[k] = Null)}
    IN  IF fill = {} THEN target
        ELSE LET k == CHOOSE x \in fill : TRUE IN Put(target, k, new[k])

\* for k, v in new.items(): if target.get(k) is None and v is not None: target[k] = v
MergeFields(target, new) ==
    [k \in DOMAIN target \cup {x \in DOMAIN new : Get(target, x) = Null /\ new[x] # Null} |->
        IF k \in DOMAIN new /\ Get(target, k) = Null /\ new[k] # Null
        THEN new[k] ELSE target[k]]

\* target.update(new)
Update(target, new) ==
    [k \in DOMAIN target \cup DOMAIN new |->
        IF k \in DOMAIN new THEN new[k] ELSE target[k]]

RECURSIVE contains_nulls(_)
contains_nulls(d) ==
    \E k \in DOMAIN d :
        \/ d[k] = Null
        \/ IsDict(d[k]) /\ contains_nulls(d[k].dict)

\* the mutation of MissingFields that takes a key that is present for filled
MissingFieldsAbsentOnly(record, schemaKeys) ==
    SelectSeq(schemaKeys, LAMBDA k : k \notin DOMAIN record)

\* for k in schema.keys(): if k not in record or record.get(k) is None: missing.append(k)
MissingFields(record, schemaKeys) ==
    SelectSeq(schemaKeys, LAMBDA k : k \notin DOMAIN record \/ Get(record, k) = Null)

missing_service_fields(svc_obj) == MissingFields(svc_obj, SERVICE_SCHEMA)

-----------------------------------------------------------------------------
(* The analyzer's replies (api_client.py): json.loads of the reply, or None *)

IMAGE_TYPES == {"speed_test", "video_test", "voice_call"}

FullService(v) == [k \in Range(SERVICE_SCHEMA) |-> Num(v)]

ServiceReplies ==
    { Null,
      Dict(EmptyDict),
      Dict(FullService(2)),
      Dict([FullService(1) EXCEPT !["nr_band"] = Null]),
      Dict([nr_band |-> Num(2)]),
      Dict(Put(FullService(1), "operator", Null)) }

FullData(t, v) == [k \in Range(GENERIC_SCHEMAS[t]) |-> Num(v)]

PartialData(t) == [FullData(t, 1) EXCEPT ![GENERIC_SCHEMAS[t][1]] = Null]

TypedReply(t, data) == Dict([image_type |-> Str(t), data |-> data])

\* a reply of each shape: none; no declared type; a speed test, complete and with a
\* null; a video test without data; a voice call; data null; an undeclared type whose
\* data is no mapping
GenericReplies ==
    { Null,
      Dict([data |-> Dict(FullData("speed_test", 1))]),
      TypedReply("speed_test", Dict(FullData("speed_test", 2))),
      TypedReply("speed_test", Dict(PartialData("speed_test"))),
      Dict([image_type |-> Str("video_test")]),
      TypedReply("voice_call", Dict(FullData("voice_call", 1))),
      TypedReply("speed_test", Null),
      TypedReply("chart", Num(7)) }

\* res and "image_type" in res
HasType(res) == Truthy(res) /\ "image_type" \in DOMAIN res.dict

\* res.get("data", {})
DataOf(res) == GetOr(res.dict, "data", Dict(EmptyDict))

-----------------------------------------------------------------------------
(* The loop iterations of process_file_streamlit after the grouping        *)
(* (app.py:76-349), in the order the code runs them.                       *)

Step(op, s, p) == [op |-> op, sector |-> s, path |-> p]

StepsOver(op, s, paths) == [i \in 1..Len(paths) |-> Step(op, s, paths[i])]

\* app.py:77-122, one sector
PrimarySector(ibs, s) ==
    <<Step("primary_service", s, Null)>> \o StepsOver("primary_generic", s, OtherImages(ibs, s))

\* app.py:77-130
PrimaryPass(ibs) ==
    PrimarySector(ibs, "alpha") \o PrimarySector(ibs, "beta") \o PrimarySector(ibs, "gamma")
    \o StepsOver("primary_voice", "voicetest", ibs["voicetest"])

\* app.py:139-159
OpportunisticPass == [i \in 1..Len(SERVICE_SECTORS) |-> Step("opportunistic", SERVICE_SECTORS[i], Null)]

\* app.py:226-284, one sector
CompletenessSector(ibs, s) ==
    <<Step("completeness_service", s, Null)>> \o StepsOver("completeness_image", s, ibs[s])

\* app.py:226-300
CompletenessPass(ibs) ==
    CompletenessSector(ibs, "alpha") \o CompletenessSector(ibs, "beta")
    \o CompletenessSector(ibs, "gamma")
    \o StepsOver("completeness_voice", "voicetest", ibs["voicetest"])

\* app.py:305-342
FinalSteps == <<Step("aggregate", "", Null), Step("resolve", "", Null)>>

\* the mutation of Schedule that re-evaluates a sector right after its primary pass
ScheduleInterleaved(ibs) ==
    PrimarySector(ibs, "alpha") \o <<Step("opportunistic", "alpha", Null)>>
    \o PrimarySector(ibs, "beta") \o <<Step("opportunistic", "beta", Null)>>
    \o PrimarySector(ibs, "gamma") \o <<Step("opportunistic", "gamma", Null)>>
    \o StepsOver("primary_voice", "voicetest", ibs["voicetest"])
    \o CompletenessPass(ibs) \o FinalSteps

\* the mutation of Schedule that runs the opportunistic pass before the primary pass
ScheduleOpportunisticFirst(ibs) ==
    OpportunisticPass \o PrimaryPass(ibs) \o CompletenessPass(ibs) \o FinalSteps

Schedule(ibs) == PrimaryPass(ibs) \o OpportunisticPass \o CompletenessPass(ibs) \o FinalSteps

\* one analyzer invocation, for the history: the pass, the mode, the unit, whether
\* it returned None, and the image type the result declares
Call(ph, mode, s, p, res) ==
    [phase |-> ph, mode |-> mode, sector |-> s, path |-> p, none |-> (res = Null),
     type |-> IF HasType(res) THEN res.dict.image_type ELSE Null]

\* an invocation as the history keeps it
Made(c) == [phase |-> c.phase, mode |-> c.mode, sector |-> c.sector, path |-> c.path]

\* the invocations cs, which extend the history, recorded
RecordCalls(cs) ==
    /\ calls' = [i \in 1..Len(cs) |-> Made(cs[i])]
    /\ last_calls' = SubSeq(cs, Len(calls) + 1, Len(cs))

-----------------------------------------------------------------------------
(* _retry_image_and_merge (app.py:162-217), a function of the state it     *)
(* reads and writes: the category maps, retried_images and the histories.  *)

MapSel(kind, s) == [kind |-> kind, sector |-> s]

GetMap(st, sel) ==
    CASE sel.kind = "speedtest" -> st.speedtest[sel.sector]
      [] sel.kind = "video" -> st.video[sel.sector]
      [] OTHER -> st.voice_test

SetMap(st, sel, m) ==
    CASE sel.kind = "speedtest" -> [st EXCEPT !.speedtest[sel.sector] = m]
      [] sel.kind = "video" -> [st EXCEPT !.video[sel.sector] = m]
      [] OTHER -> [st EXCEPT !.voice_test = m]

\* app.py:163-178: the output-folder path, else the first listed path with that stem
ResolvePath(ibs, image_name) ==
    IF TempPath(image_name) \in Files(ibs) THEN TempPath(image_name)
    ELSE LET found == {p \in Files(ibs) : Stem(p) = image_name}
         IN  IF found = {} THEN Null ELSE CHOOSE p \in found : TRUE

\* app.py:197-202 and 211-215: setdefault, then the null-coalescing loop over data.items()
MergeEntry(st, sel, image_name, data) ==
    LET map0 == GetMap(st, sel)
        map1 == IF image_name \in DOMAIN map0 THEN map0 ELSE Put(map0, image_name, Dict(EmptyDict))
        st1 == SetMap(st, sel, map1)
        entry == map1[image_name]
    IN  IF ~IsDict(data) THEN [st1 EXCEPT !.raised = TRUE]
        ELSE IF DOMAIN data.dict = {} THEN [st1 EXCEPT !.ret = TRUE]
        ELSE IF ~IsDict(entry) THEN [st1 EXCEPT !.raised = TRUE]
        ELSE [SetMap(st, sel, Put(map1, image_name, Dict(MergeFields(entry.dict, data.dict))))
                EXCEPT !.ret = TRUE]

Logged(st, image_name, sel, image_path) ==
    [st EXCEPT !.helper_log =
        Append(@, [name |-> image_name, sel |-> sel, path |-> image_path,
                   ret |-> st.ret, raised |-> st.raised])]

\* the mutation of RetryBody that skips the careful evaluation
RetryBodyNoCareful(st, sel, image_name, image_path, normal_res, eval_res) ==
    LET is_voice == image_name.sector = "voicetest"
        st1 == [st EXCEPT
                  !.calls = Append(@, Call("completeness", IF is_voice THEN "voice" ELSE "generic",
                                           image_name.sector, image_path, normal_res)),
                  !.retried_images = @ \cup {image_path}]
    IN  IF HasType(normal_res) THEN MergeEntry(st1, sel, image_name, DataOf(normal_res))
        ELSE st1

\* the mutation of RetryBody that creates the entry before it asks the analyzer
RetryBodyEntryFirst(st, sel, image_name, image_path, normal_res, eval_res) ==
    LET is_voice == image_name.sector = "voicetest"
        map0 == GetMap(st, sel)
        st0 == IF image_name \in DOMAIN map0 THEN st
               ELSE SetMap(st, sel, Put(map0, image_name, Dict(EmptyDict)))
        st1 == [st0 EXCEPT
                  !.calls = Append(@, Call("completeness", IF is_voice THEN "voice" ELSE "generic",
                                           image_name.sector, image_path, normal_res)),
                  !.retried_images = @ \cup {image_path}]
        st2 == [st1 EXCEPT
                  !.calls = Append(@, Call("completeness",
                                           IF is_voice THEN "careful_voice" ELSE "careful_generic",
                                           image_name.sector, image_path, eval_res))]
    IN  IF HasType(normal_res) THEN MergeEntry(st1, sel, image_name, DataOf(normal_res))
        ELSE IF HasType(eval_res) THEN MergeEntry(st2, sel, image_name, DataOf(eval_res))
        ELSE st2

\* app.py:186-217
RetryBody(st, sel, image_name, image_path, normal_res, eval_res) ==
    LET is_voice == image_name.sector = "voicetest"
        st1 == [st EXCEPT
                  !.calls = Append(@, Call("completeness", IF is_voice THEN "voice" ELSE "generic",
                                           image_name.sector, image_path, normal_res)),
                  !.retried_images = @ \cup {image_path}]
        st2 == [st1 EXCEPT
                  !.calls = Append(@, Call("completeness",
                                           IF is_voice THEN "careful_voice" ELSE "careful_generic",
                                           image_name.sector, image_path, eval_res))]
    IN  IF HasType(normal_res) THEN MergeEntry(st1, sel, image_name, DataOf(normal_res))
        ELSE IF HasType(eval_res) THEN MergeEntry(st2, sel, image_name, DataOf(eval_res))
        ELSE st2

\* the mutation of AlreadyRetried that never finds a path retried
AlreadyRetriedNever(st, image_path) == FALSE

\* app.py:183  if image_path_str in retried_images
AlreadyRetried(st, image_path) == image_path \in st.retried_images

\* app.py:162-217
RetryImageAndMerge(st0, ibs, image_name, sel, normal_res, eval_res) ==
    LET st == [st0 EXCEPT !.ret = FALSE]
        image_path == ResolvePath(ibs, image_name)
    IN  IF st.raised THEN st0
        ELSE IF image_path = Null THEN Logged(st, image_name, sel, image_path)
        ELSE IF AlreadyRetried(st, image_path) THEN Logged(st, image_name, sel, image_path)
        ELSE Logged(RetryBody(st, sel, image_name, image_path, normal_res, eval_res),
                    image_name, sel, image_path)

\* the replies an invocation can get: none when the analyzer is not reached
RepliesIf(reached, replies) == IF reached THEN replies ELSE {Null}

\* whether the helper reaches the analyzer (app.py:190-192)
ReachesAnalyzer(st, ibs, image_name, sel) ==
    Len(RetryImageAndMerge(st, ibs, image_name, sel, Null, Null).calls) > Len(st.calls)

\* the state the helper reads and writes
HelperState ==
    [speedtest |-> speedtest, video |-> video, voice_test |-> voice_test,
     retried_images |-> retried_images, calls |-> calls, helper_log |-> helper_log,
     raised |-> FALSE, ret |-> FALSE]

\* the helper's effects stored; an exception leaves the run
StoreHelperState(st) ==
    /\ speedtest' = st.speedtest
    /\ video' = st.video
    /\ voice_test' = st.voice_test
    /\ retried_images' = st.retried_images
    /\ RecordCalls(st.calls)
    /\ helper_log' = st.helper_log
    /\ status' = IF st.raised THEN "raised" ELSE status
    /\ step' = IF st.raised THEN step ELSE step + 1

-----------------------------------------------------------------------------
(* resolve_expression_with_vars (data_processor.py:26-85).  An expression  *)
(* is the sequence of its characters.                                      *)

UPPER_TO_LOWER ==
    [A |-> "a", B |-> "b", C |-> "c", D |-> "d", E |-> "e", F |-> "f", G |-> "g",
     H |-> "h", I |-> "i", J |-> "j", K |-> "k", L |-> "l", M |-> "m", N |-> "n",
     O |-> "o", P |-> "p", Q |-> "q", R |-> "r", S |-> "s", T |-> "t", U |-> "u",
     V |-> "v", W |-> "w", X |-> "x", Y |-> "y", Z |-> "z"]

LOWER_LETTERS == Range(UPPER_TO_LOWER)

DIGITS == {"0", "1", "2", "3", "4", "5", "6", "7", "8", "9"}

IsLetter(c) == c \in LOWER_LETTERS \/ c \in DOMAIN UPPER_TO_LOWER

\* \w
IsWordChar(c) == IsLetter(c) \/ c \in DIGITS \/ c = "_"

IsSpace(c) == c = " "

LowerChar(c) == IF c \in DOMAIN UPPER_TO_LOWER THEN UPPER_TO_LOWER[c] ELSE c

\* s.lower()
Lower(t) == [i \in 1..Len(t) |-> LowerChar(t[i])]

\* re.sub(r"[^0-9a-zA-Z]", "", s).lower()
normalize_name(t) == Lower(SelectSeq(t, LAMBDA c : IsLetter(c) \/ c \in DIGITS))

\* s.strip()
RECURSIVE Strip(_)
Strip(t) ==
    IF t = <<>> THEN t
    ELSE IF IsSpace(t[1]) THEN Strip(SubSeq(t, 2, Len(t)))
    ELSE IF IsSpace(t[Len(t)]) THEN Strip(SubSeq(t, 1, Len(t) - 1))
    ELSE t

\* the length of the longest prefix of word characters
RECURSIVE WordPrefixLen(_)
WordPrefixLen(t) ==
    IF t = <<>> \/ ~IsWordChar(t[1]) THEN 0 ELSE 1 + WordPrefixLen(SubSeq(t, 2, Len(t)))

\* key_pattern.findall(rest): the pattern r"$$['\"]([^'\"]+)['\"]$$" asks for a quote
\* after the end of the text, so it matches nowhere in any text
KeyPatternFindall(rest) == <<>>

\* the names of allowed_vars, in the order app.py:322-334 inserts them
VAR_NAMES ==
    <<[name |-> "alpha_service", chars |-> <<"a", "l", "p", "h", "a", "_", "s", "e", "r", "v", "i", "c", "e">>],
      [name |-> "beta_service", chars |-> <<"b", "e", "t", "a", "_", "s", "e", "r", "v", "i", "c", "e">>],
      [name |-> "gamma_service", chars |-> <<"g", "a", "m", "m", "a", "_", "s", "e", "r", "v", "i", "c", "e">>],
      [name |-> "alpha_speedtest", chars |-> <<"a", "l", "p", "h", "a", "_", "s", "p", "e", "e", "d", "t", "e", "s", "t">>],
      [name |-> "beta_speedtest", chars |-> <<"b", "e", "t", "a", "_", "s", "p", "e", "e", "d", "t", "e", "s", "t">>],
      [name |-> "gamma_speedtest", chars |-> <<"g", "a", "m", "m", "a", "_", "s", "p", "e", "e", "d", "t", "e", "s", "t">>],
      [name |-> "alpha_video", chars |-> <<"a", "l", "p", "h", "a", "_", "v", "i", "d", "e", "o">>],
      [name |-> "beta_video", chars |-> <<"b", "e", "t", "a", "_", "v", "i", "d", "e", "o">>],
      [name |-> "gamma_video", chars |-> <<"g", "a", "m", "m", "a", "_", "v", "i", "d", "e", "o">>],
      [name |-> "voice_test", chars |-> <<"v", "o", "i", "c", "e", "_", "t", "e", "s", "t">>],
      [name |-> "avearge", chars |-> <<"a", "v", "e", "a", "r", "g", "e">>]>>

\* norm_map.get(_normalize_name(base_raw)): the last name with that normal form
NormLookup(base_raw) ==
    LET hits == {i \in DOMAIN VAR_NAMES :
                    normalize_name(VAR_NAMES[i].chars) = normalize_name(base_raw)}
    IN  IF hits = {} THEN Null
        ELSE Str(VAR_NAMES[CHOOSE i \in hits : \A j \in hits : j <= i].name)

\* data_processor.py:48-52  the first name equal to base_raw up to case
LowerLookup(base_raw) ==
    LET hits == {i \in DOMAIN VAR_NAMES : Lower(VAR_NAMES[i].chars) = Lower(base_raw)}
    IN  IF hits = {} THEN Null
        ELSE Str(VAR_NAMES[CHOOSE i \in hits : \A j \in hits : i <= j].name)

\* the mutation of resolve_expression_with_vars that returns the root variable
\* whatever follows its name
ResolveIgnoresPath(expr0, allowed_vars) ==
    LET expr == Strip(expr0)
        base_raw == SubSeq(expr, 1, WordPrefixLen(expr))
        key1 == NormLookup(base_raw)
        base_key == IF key1 # Null THEN key1 ELSE LowerLookup(base_raw)
    IN  IF expr = <<>> \/ ~(IsLetter(expr[1]) \/ expr[1] = "_") THEN Null
        ELSE IF base_key = Null THEN Null
        ELSE Dict(allowed_vars[base_key.str])

\* data_processor.py:35-85; the loop over keys (lines 65-83) runs for no text, as
\* key_pattern finds no key
resolve_expression_with_vars(expr0, allowed_vars) ==
    LET expr == Strip(expr0)
        n == WordPrefixLen(expr)
        base_raw == SubSeq(expr, 1, n)
        rest == SubSeq(expr, n + 1, Len(expr))
        key1 == NormLookup(base_raw)
        base_key == IF key1 # Null THEN key1 ELSE LowerLookup(base_raw)
        keys == KeyPatternFindall(rest)
    IN  IF expr = <<>> \/ ~(IsLetter(expr[1]) \/ expr[1] = "_") THEN Null
        ELSE IF base_key = Null THEN Null
        ELSE IF Strip(rest) = <<>> THEN Dict(allowed_vars[base_key.str])
        ELSE IF keys = <<>> THEN Null
        ELSE Null

-----------------------------------------------------------------------------
(* map_values_to_template (excel_handler.py:137-196) *)

\* json.dumps(resolved)
JsonText(v) == [json |-> v]

Unwritten == [unwritten |-> TRUE]

\* the marked cells of a file no run has written
NotSaved(exprs) == [i \in DOMAIN exprs |-> Unwritten]

\* a text value, as the sequence of its characters
Text(chars) == [text |-> chars]

IsText(v) == "text" \in DOMAIN v

Bool(b) == [bool |-> b]

List(items) == [list |-> items]

IsList(v) == "list" \in DOMAIN v

\* the float mant / 10^scale, with no trailing zero held in the scale
RECURSIVE Float(_, _)
Float(mant, scale) ==
    IF scale > 0 /\ mant % 10 = 0 THEN Float(mant \div 10, scale - 1)
    ELSE [float_mant |-> mant, float_scale |-> scale]

IsFloat(v) == "float_mant" \in DOMAIN v

DIGIT_VALUE ==
    [c \in DIGITS |->
        CASE c = "0" -> 0 [] c = "1" -> 1 [] c = "2" -> 2 [] c = "3" -> 3 [] c = "4" -> 4
          [] c = "5" -> 5 [] c = "6" -> 6 [] c = "7" -> 7 [] c = "8" -> 8 [] c = "9" -> 9]

\* int() of a text of digits
RECURSIVE DigitsValue(_)
DigitsValue(t) ==
    IF t = <<>> THEN 0
    ELSE 10 * DigitsValue(SubSeq(t, 1, Len(t) - 1)) + DIGIT_VALUE[t[Len(t)]]

AllDigits(t) == \A i \in DOMAIN t : t[i] \in DIGITS

HasSign(t) == t # <<>> /\ t[1] \in {"-", "+"}

Unsigned(t) == IF HasSign(t) THEN SubSeq(t, 2, Len(t)) ELSE t

Signed(t, n) == IF HasSign(t) /\ t[1] = "-" THEN 0 - n ELSE n

\* re.fullmatch(r"[-+]?\d+", s_clean)
MatchesInteger(t) == Unsigned(t) # <<>> /\ AllDigits(Unsigned(t))

\* the places of the points of a text
Points(t) == {i \in DOMAIN t : t[i] = "."}

\* re.fullmatch(r"[-+]?\d*\.\d+", s_clean)
MatchesDecimal(t) ==
    LET u == Unsigned(t)
    IN  /\ Cardinality(Points(u)) = 1
        /\ LET dot == CHOOSE i \in Points(u) : TRUE
           IN  /\ dot < Len(u)
               /\ AllDigits(SubSeq(u, 1, dot - 1))
               /\ AllDigits(SubSeq(u, dot + 1, Len(u)))

\* the mutation of to_number_convert that leaves the separators in the text
ToNumberKeepsSeparators(t) ==
    LET s_clean == Strip(t)
    IN  IF s_clean = <<>> THEN Null
        ELSE IF MatchesInteger(s_clean)
        THEN Num(Signed(s_clean, DigitsValue(Unsigned(s_clean))))
        ELSE Null

\* excel_handler.py:148-166 on a text: strip, drop the commas, int or float or None
to_number_convert(t) ==
    LET s_clean == SelectSeq(Strip(t), LAMBDA c : c # ",")
        u == Unsigned(s_clean)
    IN  IF s_clean = <<>> THEN Null
        ELSE IF MatchesInteger(s_clean) THEN Num(Signed(s_clean, DigitsValue(u)))
        ELSE IF MatchesDecimal(s_clean)
        THEN LET dot == CHOOSE i \in Points(u) : TRUE
                 frac == SubSeq(u, dot + 1, Len(u))
             IN  Float(Signed(s_clean, DigitsValue(SubSeq(u, 1, dot - 1) \o frac)), Len(frac))
        ELSE Null

\* excel_handler.py:171-188: what is written for a resolved value; a bool is an
\* int to isinstance and is written as it is
CellValue(resolved) ==
    IF resolved = Null THEN Str("NULL")
    ELSE IF IsText(resolved)
    THEN IF to_number_convert(resolved.text) # Null THEN to_number_convert(resolved.text)
         ELSE resolved
    ELSE IF IsDict(resolved) \/ IsList(resolved) THEN JsonText(resolved)
    ELSE resolved

(* compute_averages (data_processor.py:146-181) *)

\* sum(vals) / len(vals), kept as the pair it is the quotient of
Mean(total, count) == [mean_sum |-> total, mean_count |-> count]

IsNumber(v) == "num" \in DOMAIN v

IsBool(v) == "bool" \in DOMAIN v

RECURSIVE Pow10(_)
Pow10(n) == IF n = 0 THEN 1 ELSE 10 * Pow10(n - 1)

\* x + y of two floats
AddFloat(x, y) ==
    LET scale == IF x.float_scale > y.float_scale THEN x.float_scale ELSE y.float_scale
    IN  Float(x.float_mant * Pow10(scale - x.float_scale)
                + y.float_mant * Pow10(scale - y.float_scale), scale)

\* float(v) of a text: the text stripped, then a sign, digits and at most one
\* point with a digit on one side of it; the exponent, infinity and
\* not-a-number forms float() also reads are not among the texts given here
FloatOfText(t) ==
    LET s == Strip(t)
        u == Unsigned(s)
    IN  IF MatchesInteger(s) THEN Float(Signed(s, DigitsValue(u)), 0)
        ELSE IF MatchesDecimal(s)
        THEN LET dot == CHOOSE i \in Points(u) : TRUE
                 frac == SubSeq(u, dot + 1, Len(u))
             IN  Float(Signed(s, DigitsValue(SubSeq(u, 1, dot - 1) \o frac)), Len(frac))
        ELSE IF /\ Len(u) > 1 /\ u[Len(u)] = "."
                /\ AllDigits(SubSeq(u, 1, Len(u) - 1))
        THEN Float(Signed(s, DigitsValue(SubSeq(u, 1, Len(u) - 1))), 0)
        ELSE Null

\* the mutation of to_number that lets a boolean through as 1.0 or 0.0
ToNumberCountsBooleans(v) ==
    IF v = Null THEN Null
    ELSE IF IsBool(v) THEN Float(IF v.bool THEN 1 ELSE 0, 0)
    ELSE IF IsNumber(v) THEN Float(v.num, 0)
    ELSE IF IsFloat(v) THEN v
    ELSE IF IsText(v) THEN FloatOfText(v.text)
    ELSE Null

\* _to_number (149-157): None for None and for a bool, float(v) otherwise,
\* None when float(v) raises
to_number(v) ==
    IF v = Null THEN Null
    ELSE IF IsBool(v) THEN Null
    ELSE IF IsNumber(v) THEN Float(v.num, 0)
    ELSE IF IsFloat(v) THEN v
    ELSE IF IsText(v) THEN FloatOfText(v.text)
    ELSE Null

RECURSIVE SumOf(_, _, _)
SumOf(speed_map, names, m) ==
    IF names = {} THEN Float(0, 0)
    ELSE LET x == CHOOSE y \in names : TRUE
         IN  AddFloat(to_number(Get(speed_map[x].dict, m)), SumOf(speed_map, names \ {x}, m))

\* _compute_speed_averages
ComputeSpeedAverages(speed_map) ==
    [m \in {"download_mbps", "upload_mbps", "ping_ms"} |->
        LET vals == {x \in DOMAIN speed_map :
                        IsDict(speed_map[x]) /\ to_number(Get(speed_map[x].dict, m)) # Null}
        IN  IF vals # {} THEN Mean(SumOf(speed_map, vals, m), Cardinality(vals)) ELSE Null]

compute_averages(alpha_speedtest, beta_speedtest, gamma_speedtest) ==
    [avearge_alpha_speedtest |-> Dict(ComputeSpeedAverages(alpha_speedtest)),
     avearge_beta_speedtest |-> Dict(ComputeSpeedAverages(beta_speedtest)),
     avearge_gamma_speedtest |-> Dict(ComputeSpeedAverages(gamma_speedtest))]

\* the marked expressions of the template
TemplateExprs ==
    <<<<"a", "l", "p", "h", "a", "_", "s", "e", "r", "v", "i", "c", "e">>,
      <<" ", "V", "o", "i", "c", "e", "_", "T", "e", "s", "t", " ">>,
      <<"a", "l", "p", "h", "a", "_", "s", "e", "r", "v", "i", "c", "e", "[", "\"", "n", "r", "_", "b", "a", "n", "d", "\"", "]">>,
      <<"t", "o", "t", "a", "l">>>>

-----------------------------------------------------------------------------
(* excel_handler.py: the images of the sheet *)

\* the mutation of get_sector_from_col that ends the voicetest range at column 16
SectorEndsAtSixteen(col_index) ==
    IF 0 <= col_index /\ col_index < 4 THEN "alpha"
    ELSE IF 4 <= col_index /\ col_index < 8 THEN "beta"
    ELSE IF 8 <= col_index /\ col_index < 12 THEN "gamma"
    ELSE IF 12 <= col_index /\ col_index < 16 THEN "voicetest"
    ELSE "unknown"

get_sector_from_col(col_index) ==
    IF 0 <= col_index /\ col_index < 4 THEN "alpha"
    ELSE IF 4 <= col_index /\ col_index < 8 THEN "beta"
    ELSE IF 8 <= col_index /\ col_index < 12 THEN "gamma"
    ELSE IF 12 <= col_index /\ col_index < 18 THEN "voicetest"
    ELSE "unknown"

\* the key (row, col) of sorted()
RowColLE(a, b) == a.row < b.row \/ (a.row = b.row /\ a.col <= b.col)

\* x put behind every element that does not sort after it: sorted() is stable
RECURSIVE InsertSorted(_, _)
InsertSorted(sorted, x) ==
    IF sorted = <<>> THEN <<x>>
    ELSE IF RowColLE(sorted[Len(sorted)], x) THEN Append(sorted, x)
    ELSE Append(InsertSorted(SubSeq(sorted, 1, Len(sorted) - 1), x), sorted[Len(sorted)])

\* excel_handler.py:57
RECURSIVE SortedByRowCol(_)
SortedByRowCol(images) ==
    IF images = <<>> THEN <<>>
    ELSE InsertSorted(SortedByRowCol(SubSeq(images, 1, Len(images) - 1)), images[Len(images)])

\* excel_handler.py:63-67: the name of the i-th image in sort order
SavedName(images_sorted, i) ==
    LET sector == get_sector_from_col(images_sorted[i].col)
    IN  Name(sector,
             Cardinality({j \in 1..i : get_sector_from_col(images_sorted[j].col) = sector}))

\* excel_handler.py:29-83: the paths of the images that were saved, in sort order
extract_images_from_excel(file) ==
    IF ~file.readable \/ file.images = <<>> THEN <<>>
    ELSE LET images_sorted == SortedByRowCol(file.images)
             named == [i \in 1..Len(images_sorted) |->
                          [path |-> TempPath(SavedName(images_sorted, i)),
                           ok |-> images_sorted[i].ok]]
             saved == SelectSeq(named, LAMBDA x : x.ok)
         IN  [i \in 1..Len(saved) |-> saved[i].path]

-----------------------------------------------------------------------------
(* group_images_by_sector (data_processor.py:184-193) *)

EmptyGrouping == [s \in ALL_SECTORS |-> <<>>]

Raised == [raised |-> TRUE]

\* the code as written: Path(p).stem.split("_") is a list, and the test
\* "sector in images_by_sector" of a list against a dict raises TypeError
\* (unhashable type) for the first path
group_images_by_sector(paths) ==
    IF paths = <<>> THEN EmptyGrouping ELSE Raised

\* the grouping the docstring describes: each path in the list of the sector its
\* name starts with, in input order
GroupedBySector(paths) ==
    [s \in ALL_SECTORS |-> SelectSeq(paths, LAMBDA p : Stem(p).sector = s)]

-----------------------------------------------------------------------------
(* The state at app.py:76, after the grouping *)

\* the suffix of a workbook's name, as its characters
XLSX == <<".", "x", "l", "s", "x">>

EmptyStores ==
    /\ service = [s \in Range(SERVICE_SECTORS) |-> EmptyDict]
    /\ speedtest = [s \in Range(SERVICE_SECTORS) |-> EmptyDict]
    /\ video = [s \in Range(SERVICE_SECTORS) |-> EmptyDict]
    /\ voice_test = EmptyDict
    /\ extract_text = <<>>
    /\ avearge = EmptyDict

IdlePure == fn = "" /\ args = <<>> /\ ret = Null

\* one embedded image of the sheet: its anchor and whether its bytes can be saved
SheetImage(row, col, ok) == [row |-> row, col |-> col, ok |-> ok]

\* the first column of a sector's range (excel_handler.py:18-25)
FirstCol(s) ==
    CASE s = "alpha" -> 0 [] s = "beta" -> 4 [] s = "gamma" -> 8 [] s = "voicetest" -> 12
      [] OTHER -> 18

\* a sheet with n images in the columns of sector s, one per row, of which those
\* numbered in S can be saved
SectorSheet(s, n, S) == [k \in 1..n |-> SheetImage(k, FirstCol(s), k \in S)]

\* the sheets of the model: MaxImages images at most over alpha, beta, gamma and
\* voicetest, one saved at least, MaxFailedSaves not saved at most
SavedSets ==
    {q \in [alpha : SUBSET (1..MaxImages), beta : SUBSET (1..MaxImages),
            gamma : SUBSET (1..MaxImages), voicetest : SUBSET (1..MaxVoice),
            na : 0..MaxImages, nb : 0..MaxImages, ng : 0..MaxImages, nv : 0..MaxVoice] :
        /\ q.alpha \subseteq 1..q.na /\ q.beta \subseteq 1..q.nb
        /\ q.gamma \subseteq 1..q.ng /\ q.voicetest \subseteq 1..q.nv
        /\ q.na + q.nb + q.ng + q.nv <= MaxImages
        /\ LET saved == Cardinality(q.alpha) + Cardinality(q.beta)
                        + Cardinality(q.gamma) + Cardinality(q.voicetest)
           IN  /\ saved >= 1
               /\ q.na + q.nb + q.ng + q.nv - saved <= MaxFailedSaves}

Sheets ==
    {SectorSheet("alpha", q.na, q.alpha) \o SectorSheet("beta", q.nb, q.beta)
     \o SectorSheet("gamma", q.ng, q.gamma) \o SectorSheet("voicetest", q.nv, q.voicetest) :
        q \in SavedSets}

\* the state at app.py:76 of a run on a readable .xlsx file with the sheet's images,
\* the images grouped by the sector of their names
Init ==
    /\ \E sheet \in Sheets :
          user_file = [exists |-> TRUE, suffix |-> XLSX, readable |-> TRUE,
                       images |-> sheet, exprs |-> TemplateExprs,
       saved |-> NotSaved(TemplateExprs)]
    /\ image_paths = extract_images_from_excel(user_file)
    /\ images_by_sector = GroupedBySector(image_paths)
    /\ schedule = Schedule(images_by_sector)
    /\ EmptyStores
    /\ retried_service_sectors = {}
    /\ retried_images = {}
    /\ pc = "passes"
    /\ step = 1
    /\ status = "running"
    /\ phase = "start"
    /\ calls = <<>>
    /\ last_calls = <<>>
    /\ helper_log = <<>>
    /\ cells = [i \in DOMAIN TemplateExprs |-> Unwritten]
    /\ IdlePure

-----------------------------------------------------------------------------
(* The passes *)

Cur == schedule[step]

Running(op) ==
    /\ pc = "passes"
    /\ status = "running"
    /\ step <= Len(schedule)
    /\ Cur.op = op

\* app.py:78-95
PrimaryService ==
    /\ Running("primary_service")
    /\ LET sector == Cur.sector
           img1 == PairedImage(images_by_sector, sector, 1)
       IN  IF HasPair(images_by_sector, sector)
           THEN \E svc \in ServiceReplies :
                   /\ RecordCalls(Append(calls, Call("primary", "service", sector, img1, svc)))
                   /\ service' = IF Truthy(svc)
                                 THEN [service EXCEPT ![sector] = Update(@, svc.dict)]
                                 ELSE service
           ELSE RecordCalls(calls) /\ UNCHANGED service
    /\ step' = step + 1
    /\ phase' = "primary"
    /\ UNCHANGED <<inputVars, speedtest, video, voice_test,
                   extract_text, avearge, retried_service_sectors, retried_images, pc,
                   status, helper_log, cells, pureVars>>

\* the mutation of PrimaryGeneric that files every typed result as a speed test
PrimaryGenericSpeedOnly ==
    /\ Running("primary_generic")
    /\ LET sector == Cur.sector
           img == Cur.path
           image_name == Stem(img)
       IN  \E res \in GenericReplies :
              /\ RecordCalls(Append(calls, Call("primary", "generic", sector, img, res)))
              /\ IF HasType(res)
                 THEN /\ speedtest' = [speedtest EXCEPT ![sector] = Put(@, image_name, DataOf(res))]
                      /\ UNCHANGED <<video, voice_test>>
                 ELSE UNCHANGED <<speedtest, video, voice_test>>
    /\ step' = step + 1
    /\ phase' = "primary"
    /\ UNCHANGED <<inputVars, service, extract_text, avearge,
                   retried_service_sectors, retried_images, pc, status, helper_log, cells,
                   pureVars>>

\* app.py:103-122
PrimaryGeneric ==
    /\ Running("primary_generic")
    /\ LET sector == Cur.sector
           img == Cur.path
           image_name == Stem(img)
       IN  \E res \in GenericReplies :
              /\ RecordCalls(Append(calls, Call("primary", "generic", sector, img, res)))
              /\ IF HasType(res) /\ res.dict.image_type = Str("speed_test")
                 THEN /\ speedtest' = [speedtest EXCEPT ![sector] = Put(@, image_name, DataOf(res))]
                      /\ UNCHANGED <<video, voice_test>>
                 ELSE IF HasType(res) /\ res.dict.image_type = Str("video_test")
                 THEN /\ video' = [video EXCEPT ![sector] = Put(@, image_name, DataOf(res))]
                      /\ UNCHANGED <<speedtest, voice_test>>
                 ELSE IF HasType(res) /\ res.dict.image_type = Str("voice_call")
                 THEN /\ voice_test' = Put(voice_test, image_name, DataOf(res))
                      /\ UNCHANGED <<speedtest, video>>
                 ELSE UNCHANGED <<speedtest, video, voice_test>>
    /\ step' = step + 1
    /\ phase' = "primary"
    /\ UNCHANGED <<inputVars, service, extract_text, avearge,
                   retried_service_sectors, retried_images, pc, status, helper_log, cells,
                   pureVars>>

\* app.py:125-130
PrimaryVoice ==
    /\ Running("primary_voice")
    /\ LET img == Cur.path
       IN  \E res \in GenericReplies :
              /\ RecordCalls(Append(calls, Call("primary", "voice", "voicetest", img, res)))
              /\ voice_test' = IF Truthy(res) /\ Get(res.dict, "image_type") = Str("voice_call")
                               THEN Put(voice_test, Stem(img), DataOf(res))
                               ELSE voice_test
    /\ step' = step + 1
    /\ phase' = "primary"
    /\ UNCHANGED <<inputVars, service, speedtest, video,
                   extract_text, avearge, retried_service_sectors, retried_images, pc,
                   status, helper_log, cells, pureVars>>

\* the mutation of NeedsReEvaluation that re-evaluates every sector
NeedsReEvaluationAlways(svc_var) == TRUE

\* app.py:147  not svc_var or contains_nulls(svc_var)
NeedsReEvaluation(svc_var) == svc_var = EmptyDict \/ contains_nulls(svc_var)

\* the mutation of Opportunistic that does not record the sector as retried
OpportunisticForgets ==
    /\ Running("opportunistic")
    /\ LET sector == Cur.sector
           svc_var == service[sector]
           img1 == PairedImage(images_by_sector, sector, 1)
       IN  IF /\ NeedsReEvaluation(svc_var)
              /\ HasPair(images_by_sector, sector)
              /\ sector \notin retried_service_sectors
           THEN \E eval_res \in ServiceReplies :
                   /\ RecordCalls(Append(calls, Call("opportunistic", "careful_service", sector,
                                                       img1, eval_res)))
                   /\ service' = IF Truthy(eval_res)
                                 THEN [service EXCEPT ![sector] = MergeFields(@, eval_res.dict)]
                                 ELSE service
           ELSE RecordCalls(calls) /\ UNCHANGED service
    /\ step' = step + 1
    /\ phase' = "opportunistic"
    /\ UNCHANGED <<inputVars, speedtest, video, voice_test, retried_service_sectors,
                   extract_text, avearge, retried_images, pc, status, helper_log, cells,
                   pureVars>>

\* app.py:139-159
Opportunistic ==
    /\ Running("opportunistic")
    /\ LET sector == Cur.sector
           svc_var == service[sector]
           img1 == PairedImage(images_by_sector, sector, 1)
       IN  IF /\ NeedsReEvaluation(svc_var)
              /\ HasPair(images_by_sector, sector)
              /\ sector \notin retried_service_sectors
           THEN \E eval_res \in ServiceReplies :
                   /\ RecordCalls(Append(calls, Call("opportunistic", "careful_service", sector,
                                                       img1, eval_res)))
                   /\ retried_service_sectors' = retried_service_sectors \cup {sector}
                   /\ service' = IF Truthy(eval_res)
                                 THEN [service EXCEPT ![sector] = MergeFields(@, eval_res.dict)]
                                 ELSE service
           ELSE RecordCalls(calls) /\ UNCHANGED <<retried_service_sectors, service>>
    /\ step' = step + 1
    /\ phase' = "opportunistic"
    /\ UNCHANGED <<inputVars, speedtest, video, voice_test,
                   extract_text, avearge, retried_images, pc, status, helper_log, cells,
                   pureVars>>

\* app.py:229-257
CompletenessService ==
    /\ Running("completeness_service")
    /\ LET sector == Cur.sector
           svc_var == service[sector]
           img1 == PairedImage(images_by_sector, sector, 1)
           svc_missing == IF svc_var # EmptyDict THEN missing_service_fields(svc_var)
                          ELSE SERVICE_SCHEMA
       IN  IF svc_missing # <<>> /\ sector \notin retried_service_sectors
              /\ HasPair(images_by_sector, sector)
           THEN \E normal_svc \in ServiceReplies :
                \E eval_svc \in RepliesIf(
                       Truthy(normal_svc)
                       /\ missing_service_fields(MergeFields(svc_var, normal_svc.dict)) # <<>>,
                       ServiceReplies) :
                   LET merged == MergeFields(svc_var, normal_svc.dict)
                       again == Truthy(normal_svc) /\ missing_service_fields(merged) # <<>>
                       c1 == Append(calls, Call("completeness", "service", sector, img1, normal_svc))
                   IN  /\ retried_service_sectors' = retried_service_sectors \cup {sector}
                       /\ RecordCalls(IF again
                                      THEN Append(c1, Call("completeness", "careful_service",
                                                           sector, img1, eval_svc))
                                      ELSE c1)
                       /\ service' =
                            IF ~Truthy(normal_svc) THEN service
                            ELSE IF again /\ Truthy(eval_svc)
                            THEN [service EXCEPT ![sector] = MergeFields(merged, eval_svc.dict)]
                            ELSE [service EXCEPT ![sector] = merged]
           ELSE RecordCalls(calls) /\ UNCHANGED <<retried_service_sectors, service>>
    /\ step' = step + 1
    /\ phase' = "completeness"
    /\ UNCHANGED <<inputVars, speedtest, video, voice_test,
                   extract_text, avearge, retried_images, pc, status, helper_log, cells,
                   pureVars>>

\* an entry that is not a mapping fails the test "k not in entry" (app.py:271, 280, 296)
CheckRaises(entry) == ~IsDict(entry)

\* app.py:268-275 and 277-284: audit the entry of one map, repair it when fields are missing
AuditEntry(st, ibs, sel, image_name, schemaKeys, normal_res, eval_res) ==
    LET map == GetMap(st, sel)
    IN  IF st.raised \/ image_name \notin DOMAIN map THEN st
        ELSE IF CheckRaises(map[image_name]) THEN [st EXCEPT !.raised = TRUE]
        ELSE IF MissingFields(map[image_name].dict, schemaKeys) # <<>>
        THEN RetryImageAndMerge(st, ibs, image_name, sel, normal_res, eval_res)
        ELSE st

\* whether the audit of an entry reaches the analyzer
AuditReaches(st, ibs, sel, image_name, schemaKeys) ==
    Len(AuditEntry(st, ibs, sel, image_name, schemaKeys, Null, Null).calls) > Len(st.calls)

\* the mutation of Unprocessed that also asks the voice map
UnprocessedAnyMap(st, sector, image_name) ==
    /\ image_name \notin DOMAIN st.speedtest[sector]
    /\ image_name \notin DOMAIN st.video[sector]
    /\ image_name \notin DOMAIN st.voice_test

\* app.py:263  name not in speed_map and name not in video_map
Unprocessed(st, sector, image_name) ==
    /\ image_name \notin DOMAIN st.speedtest[sector]
    /\ image_name \notin DOMAIN st.video[sector]

\* app.py:260-284
CompletenessImage ==
    /\ Running("completeness_image")
    /\ LET sector == Cur.sector
           image_name == Stem(Cur.path)
           speed_sel == MapSel("speedtest", sector)
           video_sel == MapSel("video", sector)
           speed_keys == GENERIC_SCHEMAS["speed_test"]
           video_keys == GENERIC_SCHEMAS["video_test"]
           ibs == images_by_sector
       IN  IF image_name.n = 1 \/ image_name.n = 2
           THEN /\ step' = step + 1
                /\ RecordCalls(calls)
                /\ UNCHANGED <<speedtest, video, voice_test, retried_images, helper_log,
                               status>>
           ELSE IF Unprocessed(HelperState, sector, image_name)
           THEN LET reached == ReachesAnalyzer(HelperState, ibs, image_name, speed_sel)
                IN  \E r1 \in RepliesIf(reached, GenericReplies) :
                    \E r2 \in RepliesIf(reached /\ ~HasType(r1), GenericReplies) :
                       StoreHelperState(RetryImageAndMerge(HelperState, ibs, image_name,
                                                           speed_sel, r1, r2))
           ELSE LET reached1 == AuditReaches(HelperState, ibs, speed_sel, image_name, speed_keys)
                IN  \E r1 \in RepliesIf(reached1, GenericReplies) :
                    \E r2 \in RepliesIf(reached1 /\ ~HasType(r1), GenericReplies) :
                       LET st1 == AuditEntry(HelperState, ibs, speed_sel, image_name,
                                             speed_keys, r1, r2)
                           reached2 == AuditReaches(st1, ibs, video_sel, image_name, video_keys)
                       IN  \E r3 \in RepliesIf(reached2, GenericReplies) :
                           \E r4 \in RepliesIf(reached2 /\ ~HasType(r3), GenericReplies) :
                              StoreHelperState(AuditEntry(st1, ibs, video_sel, image_name,
                                                          video_keys, r3, r4))
    /\ phase' = "completeness"
    /\ UNCHANGED <<inputVars, service, extract_text, avearge,
                   retried_service_sectors, pc, cells, pureVars>>

\* app.py:288-300
CompletenessVoice ==
    /\ Running("completeness_voice")
    /\ LET image_name == Stem(Cur.path)
           sel == MapSel("voice_test", "voicetest")
           voice_keys == GENERIC_SCHEMAS["voice_call"]
           ibs == images_by_sector
           reached ==
             IF image_name \notin DOMAIN voice_test
             THEN ReachesAnalyzer(HelperState, ibs, image_name, sel)
             ELSE AuditReaches(HelperState, ibs, sel, image_name, voice_keys)
       IN  \E r1 \in RepliesIf(reached, GenericReplies) :
           \E r2 \in RepliesIf(reached /\ ~HasType(r1), GenericReplies) :
              StoreHelperState(
                IF image_name \notin DOMAIN voice_test
                THEN RetryImageAndMerge(HelperState, ibs, image_name, sel, r1, r2)
                ELSE AuditEntry(HelperState, ibs, sel, image_name, voice_keys, r1, r2))
    /\ phase' = "completeness"
    /\ UNCHANGED <<inputVars, service, extract_text, avearge,
                   retried_service_sectors, pc, cells, pureVars>>

\* app.py:305-309
Aggregate ==
    /\ Running("aggregate")
    /\ avearge' = compute_averages(speedtest["alpha"], speedtest["beta"], speedtest["gamma"])
    /\ step' = step + 1
    /\ phase' = "aggregate"
    /\ UNCHANGED <<inputVars, storeVars, extract_text,
                   retried_service_sectors, retried_images, pc, status, helper_log,
                   cells, pureVars>>
    /\ RecordCalls(calls)

\* app.py:322-334
AllowedVars ==
    [alpha_service |-> service["alpha"], beta_service |-> service["beta"],
     gamma_service |-> service["gamma"], alpha_speedtest |-> speedtest["alpha"],
     beta_speedtest |-> speedtest["beta"], gamma_speedtest |-> speedtest["gamma"],
     alpha_video |-> video["alpha"], beta_video |-> video["beta"],
     gamma_video |-> video["gamma"], voice_test |-> voice_test, avearge |-> avearge]

\* app.py:312-349 with excel_handler.py:137-195: scan_bold_red_expressions loads the
\* workbook and lists its marked cells with their expressions; map_values_to_template
\* loads the workbook once more as wb_edit, assigns the resolved values to the cells
\* the scan listed, which are cells of the scan's workbook, and saves wb_edit
ResolveTemplate ==
    /\ Running("resolve")
    /\ extract_text' = extract_text \o user_file.exprs
    /\ cells' = [i \in DOMAIN user_file.exprs |->
                    CellValue(resolve_expression_with_vars(user_file.exprs[i], AllowedVars))]
    /\ LET wb_edit == user_file.saved
       IN  user_file' = [user_file EXCEPT !.saved = wb_edit]
    /\ step' = step + 1
    /\ phase' = "resolve"
    /\ status' = "returned"
    /\ pc' = "done"
    /\ UNCHANGED <<image_paths, images_by_sector, schedule, storeVars, avearge,
                   retried_service_sectors, retried_images, helper_log, pureVars>>
    /\ RecordCalls(calls)

Next ==
    \/ PrimaryService
    \/ PrimaryGeneric
    \/ PrimaryVoice
    \/ Opportunistic
    \/ CompletenessService
    \/ CompletenessImage
    \/ CompletenessVoice
    \/ Aggregate
    \/ ResolveTemplate

Spec == Init /\ [][Next]_vars


-----------------------------------------------------------------------------
(* Properties of the passes *)

\* every field of old that holds a value holds that value in new
FieldsKept(old, new) ==
    \A k \in DOMAIN old : old[k] # Null => k \in DOMAIN new /\ new[k] = old[k]

\* every field of every entry of the map m that holds a value holds it in the map n
EntriesKept(m, n) ==
    \A name \in DOMAIN m :
        IsDict(m[name]) =>
            /\ name \in DOMAIN n
            /\ IsDict(n[name])
            /\ FieldsKept(m[name].dict, n[name].dict)

PhaseRank(ph) ==
    CASE ph = "start" -> 0 [] ph = "primary" -> 1 [] ph = "opportunistic" -> 2
      [] ph = "completeness" -> 3 [] ph = "aggregate" -> 4 [] ph = "resolve" -> 5

SlotComplete(s) == missing_service_fields(service[s]) = <<>>

\* an entry with no missing field of the schema of the map's category
EntryCompleteIn(m, name, t) ==
    /\ name \in DOMAIN m
    /\ IsDict(m[name])
    /\ MissingFields(m[name].dict, GENERIC_SCHEMAS[t]) = <<>>

EntryComplete(name) ==
    \/ \E s \in Range(SERVICE_SECTORS) :
          \/ EntryCompleteIn(speedtest[s], name, "speed_test")
          \/ EntryCompleteIn(video[s], name, "video_test")
    \/ EntryCompleteIn(voice_test, name, "voice_call")

ServiceModes == {"service", "careful_service"}

-----------------------------------------------------------------------------
(* The merge and the audit of missing fields, applied to records of every  *)
(* shape over a few keys.                                                   *)

MaxValue == 2

RecordKeys == {"a", "b", "c"}

RecordValues == {Null} \cup {Num(v) : v \in 1..MaxValue}

Records == UNION {[S -> RecordValues] : S \in SUBSET RecordKeys}

SchemaKeyLists == {<<"a", "b", "c">>, <<"b", "a">>, <<"c">>, <<>>}

\* no file, no images, no pass running
IdlePipeline ==
    /\ user_file = [exists |-> FALSE, suffix |-> <<>>, readable |-> FALSE,
                    images |-> <<>>, exprs |-> <<>>, saved |-> <<>>]
    /\ image_paths = <<>>
    /\ images_by_sector = EmptyGrouping
    /\ schedule = <<>>
    /\ EmptyStores
    /\ retried_service_sectors = {}
    /\ retried_images = {}
    /\ pc = "idle"
    /\ step = 1
    /\ status = "idle"
    /\ phase = "start"
    /\ calls = <<>>
    /\ last_calls = <<>>
    /\ helper_log = <<>>
    /\ cells = <<>>

pipelineVars ==
    <<inputVars, storeVars, extract_text, avearge, retried_service_sectors, retried_images,
      pc, step, status, phase, calls, last_calls, helper_log, cells>>

InitPure == IdlePipeline /\ IdlePure

\* the loop of app.py:156-159 on a record and a reply
ApplyMerge ==
    /\ fn = ""
    /\ \E target \in Records, new \in Records :
          /\ args' = <<target, new>>
          /\ ret' = MergeFields(target, new)
    /\ fn' = "merge"
    /\ UNCHANGED pipelineVars

\* the same reply merged into the record the merge left
ApplyMergeAgain ==
    /\ fn = "merge"
    /\ fn' = "merge_again"
    /\ ret' = MergeFields(ret, args[2])
    /\ UNCHANGED <<args, pipelineVars>>

\* the audit of app.py:268-272 on a record and the keys of a schema
ApplyMissingFields ==
    /\ fn = ""
    /\ \E record \in Records, schemaKeys \in SchemaKeyLists :
          /\ args' = <<record, schemaKeys>>
          /\ ret' = MissingFields(record, schemaKeys)
    /\ fn' = "missing"
    /\ UNCHANGED pipelineVars

NextPure == ApplyMerge \/ ApplyMergeAgain \/ ApplyMissingFields

SpecPure == InitPure /\ [][NextPure]_vars

\* C2: the merge sets a key of the reply to the reply's value exactly when the
\* record lacks the key or holds null at it and the reply's value is not null; it
\* leaves every other key as it was, a key the record lacks absent, and removes
\* no key.
C2_MergeContract ==
    fn = "merge" =>
        LET target == args[1]
            new == args[2]
        IN  /\ DOMAIN target \subseteq DOMAIN ret
            /\ DOMAIN ret \subseteq DOMAIN target \cup DOMAIN new
            /\ \A k \in DOMAIN new :
                  IF (k \notin DOMAIN target \/ target[k] = Null) /\ new[k] # Null
                  THEN k \in DOMAIN ret /\ ret[k] = new[k]
                  ELSE IF k \in DOMAIN target THEN ret[k] = target[k]
                  ELSE k \notin DOMAIN ret
            /\ \A k \in DOMAIN target \ DOMAIN new : ret[k] = target[k]

\* a record with a value, a null and a key it lacks, merged with a reply that has
\* another value for each and a null
C2_Witness ==
    /\ fn = "merge"
    /\ args = << [a |-> Num(1), b |-> Null], [a |-> Num(2), b |-> Num(2), c |-> Null] >>
    /\ ret = [a |-> Num(1), b |-> Num(2)]

\* C3: merging the same reply into the record a second time leaves the record the
\* first merge left.
C3_MergeIdempotent ==
    [][fn' = "merge_again" => ret' = ret]_vars

\* a reply that filled two fields of the record, merged again
C3_Witness ==
    /\ fn = "merge_again"
    /\ args = << [a |-> Null], [a |-> Num(2), b |-> Num(1), c |-> Null] >>
    /\ ret = [a |-> Num(2), b |-> Num(1)]

\* the place of the key k in the list keys
IndexOf(keys, k) == CHOOSE i \in DOMAIN keys : keys[i] = k

\* C4: the audit returns the keys of the schema that the record lacks or holds
\* null at, each once, in the order of the schema, and no other key.
C4_MissingFieldsExact ==
    fn = "missing" =>
        LET record == args[1]
            schemaKeys == args[2]
            lacks(k) == k \notin DOMAIN record \/ record[k] = Null
        IN  /\ \A i \in DOMAIN ret : ret[i] \in Range(schemaKeys) /\ lacks(ret[i])
            /\ \A k \in Range(schemaKeys) : lacks(k) => \E i \in DOMAIN ret : ret[i] = k
            /\ \A i, j \in DOMAIN ret :
                  i < j => IndexOf(schemaKeys, ret[i]) < IndexOf(schemaKeys, ret[j])

\* the audits of a record with a value, a null and a key the schema has not
C4_Witness ==
    /\ fn = "missing"
    /\ \/ /\ args = << [a |-> Num(1), b |-> Null], <<"a", "b", "c">> >>
          /\ ret = <<"b", "c">>
       \/ /\ args = << [a |-> Num(1), b |-> Null, c |-> Null], <<"b", "a">> >>
          /\ ret = <<"b">>

-----------------------------------------------------------------------------
(* _retry_image_and_merge invoked any number of times within one run       *)

MaxInvocations == 2

\* a sheet with the pair and a third image of alpha and one voice image
RetrySheet == SectorSheet("alpha", 3, {1, 2, 3}) \o SectorSheet("voicetest", 1, {1})

\* the invocations: an image with a map of its sector, and a name no file has
RetryTargets ==
    { [name |-> Name("alpha", 3), sel |-> MapSel("speedtest", "alpha")],
      [name |-> Name("alpha", 3), sel |-> MapSel("video", "alpha")],
      [name |-> Name("voicetest", 1), sel |-> MapSel("voice_test", "voicetest")],
      [name |-> Name("beta", 3), sel |-> MapSel("speedtest", "beta")] }

RetryReplies ==
    { Null,
      Dict([data |-> Dict(FullData("speed_test", 1))]),
      TypedReply("speed_test", Dict(FullData("speed_test", 2))),
      TypedReply("speed_test", Dict(PartialData("speed_test"))),
      TypedReply("speed_test", Null) }

InitRetry ==
    /\ user_file = [exists |-> TRUE, suffix |-> XLSX, readable |-> TRUE,
                    images |-> RetrySheet, exprs |-> TemplateExprs,
       saved |-> NotSaved(TemplateExprs)]
    /\ image_paths = extract_images_from_excel(user_file)
    /\ images_by_sector = GroupedBySector(image_paths)
    /\ schedule = <<>>
    /\ EmptyStores
    /\ retried_service_sectors = {}
    /\ retried_images = {}
    /\ pc = "retry"
    /\ step = 1
    /\ status = "running"
    /\ phase = "completeness"
    /\ calls = <<>>
    /\ last_calls = <<>>
    /\ helper_log = <<>>
    /\ cells = [i \in DOMAIN TemplateExprs |-> Unwritten]
    /\ IdlePure

\* app.py:162-217, one invocation
InvokeRetry ==
    /\ pc = "retry"
    /\ status = "running"
    /\ Len(helper_log) < MaxInvocations
    /\ \E t \in RetryTargets :
          LET reached == ReachesAnalyzer(HelperState, images_by_sector, t.name, t.sel)
          IN  \E r1 \in RepliesIf(reached, RetryReplies) :
              \E r2 \in RepliesIf(reached /\ ~HasType(r1), RetryReplies) :
                 StoreHelperState(RetryImageAndMerge(HelperState, images_by_sector,
                                                     t.name, t.sel, r1, r2))
    /\ UNCHANGED <<inputVars, service, extract_text, avearge, retried_service_sectors,
                   pc, phase, cells, pureVars>>

NextRetry == InvokeRetry

SpecRetry == InitRetry /\ [][NextRetry]_vars

StandardModes == {"generic", "voice"}

\* the standard-mode invocations of the analyzer for the path p
StandardCalls(history, p) ==
    {i \in DOMAIN history : history[i].path = p /\ history[i].mode \in StandardModes}

-----------------------------------------------------------------------------
(* process_file_streamlit from its entry (app.py:41-72)                     *)

MaxSheetImages == 2

SheetRows == {1, 2}

\* a column of alpha, of voicetest and of no sector
SheetCols == {FirstCol("alpha"), FirstCol("voicetest"), FirstCol("unknown")}

SheetImages == {SheetImage(r, c, ok) : r \in SheetRows, c \in SheetCols, ok \in BOOLEAN}

RunSheets == UNION {[1..n -> SheetImages] : n \in 0..MaxSheetImages}

Suffixes == {XLSX, <<".", "X", "L", "S", "X">>, <<".", "x", "l", "s">>}

\* what an earlier run left in the stores
LeftoverStores ==
    /\ service = [s \in Range(SERVICE_SECTORS) |-> FullService(1)]
    /\ speedtest = [s \in Range(SERVICE_SECTORS) |->
                       [x \in {Name(s, 3)} |-> Dict(FullData("speed_test", 1))]]
    /\ video = [s \in Range(SERVICE_SECTORS) |-> EmptyDict]
    /\ voice_test = EmptyDict
    /\ extract_text = <<TemplateExprs[1]>>
    /\ avearge = EmptyDict

InitRun ==
    /\ \E exists \in BOOLEAN, suffix \in Suffixes, readable \in BOOLEAN, sheet \in RunSheets :
          user_file = [exists |-> exists, suffix |-> suffix, readable |-> readable,
                       images |-> sheet, exprs |-> TemplateExprs,
       saved |-> NotSaved(TemplateExprs)]
    /\ image_paths = <<>>
    /\ images_by_sector = EmptyGrouping
    /\ schedule = <<>>
    /\ EmptyStores \/ LeftoverStores
    /\ retried_service_sectors = {}
    /\ retried_images = {}
    /\ pc = "reset"
    /\ step = 1
    /\ status = "running"
    /\ phase = "start"
    /\ calls = <<>>
    /\ last_calls = <<>>
    /\ helper_log = <<>>
    /\ cells = [i \in DOMAIN TemplateExprs |-> Unwritten]
    /\ IdlePure

runVars ==
    <<retried_service_sectors, retried_images, step, phase, calls, last_calls, helper_log,
      cells, pureVars>>

\* the mutation of reset_global_data_stores that leaves the voice map and the
\* expression list as they are
ResetKeepsVoiceAndExpressions ==
    /\ pc = "reset"
    /\ service' = [s \in Range(SERVICE_SECTORS) |-> EmptyDict]
    /\ speedtest' = [s \in Range(SERVICE_SECTORS) |-> EmptyDict]
    /\ video' = [s \in Range(SERVICE_SECTORS) |-> EmptyDict]
    /\ avearge' = EmptyDict
    /\ pc' = "check"
    /\ UNCHANGED <<voice_test, extract_text, inputVars, status, runVars>>

\* data_processor.py:214-232, called at app.py:43
reset_global_data_stores ==
    /\ pc = "reset"
    /\ service' = [s \in Range(SERVICE_SECTORS) |-> EmptyDict]
    /\ speedtest' = [s \in Range(SERVICE_SECTORS) |-> EmptyDict]
    /\ video' = [s \in Range(SERVICE_SECTORS) |-> EmptyDict]
    /\ voice_test' = EmptyDict
    /\ extract_text' = <<>>
    /\ avearge' = EmptyDict
    /\ pc' = "check"
    /\ UNCHANGED <<inputVars, status, runVars>>

\* app.py:52-59
CheckTemplate ==
    /\ pc = "check"
    /\ IF ~user_file.exists \/ Lower(user_file.suffix) # XLSX
       THEN status' = "aborted" /\ pc' = "done"
       ELSE status' = status /\ pc' = "extract"
    /\ UNCHANGED <<inputVars, storeVars, extract_text, avearge, runVars>>

\* app.py:62-70
ExtractImages ==
    /\ pc = "extract"
    /\ image_paths' = extract_images_from_excel(user_file)
    /\ IF image_paths' = <<>>
       THEN status' = "aborted" /\ pc' = "done"
       ELSE status' = status /\ pc' = "group"
    /\ UNCHANGED <<user_file, images_by_sector, schedule, storeVars, extract_text, avearge,
                   runVars>>

\* app.py:72: an exception of the grouping leaves process_file_streamlit
GroupImages ==
    /\ pc = "group"
    /\ LET grouped == group_images_by_sector(image_paths)
       IN  IF grouped = Raised
           THEN /\ status' = "raised"
                /\ pc' = "done"
                /\ UNCHANGED <<images_by_sector, schedule>>
           ELSE /\ images_by_sector' = grouped
                /\ schedule' = Schedule(grouped)
                /\ status' = status
                /\ pc' = "passes"
    /\ UNCHANGED <<user_file, image_paths, storeVars, extract_text, avearge, runVars>>

NextRun ==
    \/ reset_global_data_stores
    \/ CheckTemplate
    \/ ExtractImages
    \/ GroupImages

SpecRun == InitRun /\ [][NextRun]_vars

\* the conditions that end a run: no file, a file of another type, no image
Fatal ==
    \/ ~user_file.exists
    \/ Lower(user_file.suffix) # XLSX
    \/ extract_images_from_excel(user_file) = <<>>

\* C10: a run on a file that is absent, of another type than .xlsx or yields no
\* image ends aborted, with no analyzer invocation and no cell written; a run on
\* any other file does not end before its passes.
C10_AbortExactlyOnFatal ==
    pc = "done" =>
        IF Fatal
        THEN /\ status = "aborted"
             /\ calls = <<>>
             /\ \A i \in DOMAIN cells : cells[i] = Unwritten
        ELSE status # "aborted" /\ status # "raised"

\* C11: from the reset at the start of a run on, whatever an earlier run left, the
\* service slots, the category maps, the averages and the expression list are empty
\* and no sector and no image counts as retried, up to the start of the passes.
C11_EmptyAtRunStart ==
    pc # "reset" =>
        /\ EmptyStores
        /\ retried_service_sectors = {}
        /\ retried_images = {}

\* a run that has extracted its images and is about to group them
C11_Witness ==
    /\ pc = "group"
    /\ Len(image_paths) = MaxSheetImages
    /\ EmptyStores

-----------------------------------------------------------------------------
(* Calls of process_file_streamlit that are in progress at the same time in *)
(* one process: main() (app.py:352-419) runs once per session, and the      *)
(* stores are the attributes of the one module data_processor.              *)

MaxRuns == 2

Runs == 1..MaxRuns

\* each session uploads its file into a folder of its own (app.py:384-388)
SharedFiles ==
    { [exists |-> TRUE, suffix |-> XLSX, readable |-> TRUE, images |-> RetrySheet,
       exprs |-> TemplateExprs,
       saved |-> NotSaved(TemplateExprs)],
      [exists |-> TRUE, suffix |-> XLSX, readable |-> TRUE, images |-> <<>>,
       exprs |-> TemplateExprs,
       saved |-> NotSaved(TemplateExprs)],
      [exists |-> TRUE, suffix |-> <<".", "x", "l", "s">>, readable |-> TRUE,
       images |-> RetrySheet, exprs |-> TemplateExprs,
       saved |-> NotSaved(TemplateExprs)] }

InitShared ==
    /\ user_file \in [Runs -> SharedFiles]
    /\ image_paths = [r \in Runs |-> <<>>]
    /\ images_by_sector = EmptyGrouping
    /\ schedule = <<>>
    /\ EmptyStores \/ LeftoverStores
    /\ retried_service_sectors = {}
    /\ retried_images = {}
    /\ pc = [r \in Runs |-> "reset"]
    /\ step = 1
    /\ status = [r \in Runs |-> "running"]
    /\ phase = "start"
    /\ calls = <<>>
    /\ last_calls = <<>>
    /\ helper_log = <<>>
    /\ cells = [i \in DOMAIN TemplateExprs |-> Unwritten]
    /\ IdlePure

sharedFrame == <<images_by_sector, schedule, runVars>>

\* app.py:43 in the run r
SharedReset(r) ==
    /\ pc[r] = "reset"
    /\ service' = [s \in Range(SERVICE_SECTORS) |-> EmptyDict]
    /\ speedtest' = [s \in Range(SERVICE_SECTORS) |-> EmptyDict]
    /\ video' = [s \in Range(SERVICE_SECTORS) |-> EmptyDict]
    /\ voice_test' = EmptyDict
    /\ extract_text' = <<>>
    /\ avearge' = EmptyDict
    /\ pc' = [pc EXCEPT ![r] = "check"]
    /\ UNCHANGED <<user_file, image_paths, status, sharedFrame>>

\* app.py:52-59 in the run r
SharedCheck(r) ==
    /\ pc[r] = "check"
    /\ IF ~user_file[r].exists \/ Lower(user_file[r].suffix) # XLSX
       THEN status' = [status EXCEPT ![r] = "aborted"] /\ pc' = [pc EXCEPT ![r] = "done"]
       ELSE status' = status /\ pc' = [pc EXCEPT ![r] = "extract"]
    /\ UNCHANGED <<user_file, image_paths, storeVars, extract_text, avearge, sharedFrame>>

\* app.py:62-70 in the run r
SharedExtract(r) ==
    /\ pc[r] = "extract"
    /\ image_paths' = [image_paths EXCEPT ![r] = extract_images_from_excel(user_file[r])]
    /\ IF image_paths'[r] = <<>>
       THEN status' = [status EXCEPT ![r] = "aborted"] /\ pc' = [pc EXCEPT ![r] = "done"]
       ELSE status' = status /\ pc' = [pc EXCEPT ![r] = "group"]
    /\ UNCHANGED <<user_file, storeVars, extract_text, avearge, sharedFrame>>

\* app.py:72 in the run r: the grouping raises for the paths of the run
SharedGroup(r) ==
    /\ pc[r] = "group"
    /\ group_images_by_sector(image_paths[r]) = Raised
    /\ status' = [status EXCEPT ![r] = "raised"]
    /\ pc' = [pc EXCEPT ![r] = "done"]
    /\ UNCHANGED <<user_file, image_paths, storeVars, extract_text, avearge, sharedFrame>>

NextShared ==
    \E r \in Runs : SharedReset(r) \/ SharedCheck(r) \/ SharedExtract(r) \/ SharedGroup(r)

SpecShared == InitShared /\ [][NextShared]_vars

\* the places of a run between its reset of the stores and its end
UsingStores == {"check", "extract", "group"}

\* C12: no run resets the stores while another run that has reset them is still
\* in progress.
C12_StoreExclusive ==
    [][\A r \in Runs :
          (pc[r] = "reset" /\ pc'[r] = "check")
             => \A q \in Runs \ {r} : pc[q] \notin UsingStores]_vars

-----------------------------------------------------------------------------
(* The resolver, the coercion, the averages and the sector of a column,    *)
(* each applied to inputs of every shape the claims name.                   *)

\* AlphaService["NR_Band"]
EXPR_PASCAL ==
    <<"A", "l", "p", "h", "a", "S", "e", "r", "v", "i", "c", "e", "[", "\"", "N", "R", "_", "B", "a", "n", "d", "\"", "]">>

\* alphaservice["nr_band"]
EXPR_JOINED ==
    <<"a", "l", "p", "h", "a", "s", "e", "r", "v", "i", "c", "e", "[", "\"", "n", "r", "_", "b", "a", "n", "d", "\"", "]">>

\* alpha_service["nr_band"]
EXPR_EXACT ==
    <<"a", "l", "p", "h", "a", "_", "s", "e", "r", "v", "i", "c", "e", "[", "\"", "n", "r", "_", "b", "a", "n", "d", "\"", "]">>

\* alpha_service
EXPR_ROOT ==
    <<"a", "l", "p", "h", "a", "_", "s", "e", "r", "v", "i", "c", "e">>

\* ALPHA_SERVICE
EXPR_ROOT_UPPER ==
    <<"A", "L", "P", "H", "A", "_", "S", "E", "R", "V", "I", "C", "E">>

\*  Voice_Test 
EXPR_ROOT_SPACED ==
    <<" ", "V", "o", "i", "c", "e", "_", "T", "e", "s", "t", " ">>

\* unknown_var["x"]
EXPR_UNKNOWN ==
    <<"u", "n", "k", "n", "o", "w", "n", "_", "v", "a", "r", "[", "\"", "x", "\"", "]">>

\* unknown_var
EXPR_UNKNOWN_ROOT ==
    <<"u", "n", "k", "n", "o", "w", "n", "_", "v", "a", "r">>

\* alpha_service["zz"]
EXPR_NO_KEY ==
    <<"a", "l", "p", "h", "a", "_", "s", "e", "r", "v", "i", "c", "e", "[", "\"", "z", "z", "\"", "]">>

\* alpha_service["nr_band"]["x"]
EXPR_TOO_DEEP ==
    <<"a", "l", "p", "h", "a", "_", "s", "e", "r", "v", "i", "c", "e", "[", "\"", "n", "r", "_", "b", "a", "n", "d", "\"", "]", "[", "\"", "x", "\"", "]">>

\* beta_speedtest["beta_image_3"]["download_mbps"]
EXPR_NESTED ==
    <<"b", "e", "t", "a", "_", "s", "p", "e", "e", "d", "t", "e", "s", "t", "[", "\"", "b", "e", "t", "a", "_", "i", "m", "a", "g", "e", "_", "3", "\"", "]", "[", "\"", "d", "o", "w", "n", "l", "o", "a", "d", "_", "m", "b", "p", "s", "\"", "]">>

\* voice_test["voicetest_image_1"]["time"]
EXPR_VOICE ==
    <<"v", "o", "i", "c", "e", "_", "t", "e", "s", "t", "[", "\"", "v", "o", "i", "c", "e", "t", "e", "s", "t", "_", "i", "m", "a", "g", "e", "_", "1", "\"", "]", "[", "\"", "t", "i", "m", "e", "\"", "]">>

\* 3x
EXPR_DIGIT ==
    <<"3", "x">>

\* (the empty text)
EXPR_EMPTY ==
    <<>>

\* alpha_service xyz
EXPR_TRAILING_WORD ==
    <<"a", "l", "p", "h", "a", "_", "s", "e", "r", "v", "i", "c", "e", " ", "x", "y", "z">>

\* alpha_service.nr_band
EXPR_DOTTED ==
    <<"a", "l", "p", "h", "a", "_", "s", "e", "r", "v", "i", "c", "e", ".", "n", "r", "_", "b", "a", "n", "d">>

\* alpha_service[0]
EXPR_INDEXED ==
    <<"a", "l", "p", "h", "a", "_", "s", "e", "r", "v", "i", "c", "e", "[", "0", "]">>

ResolveExprs ==
    {EXPR_TRAILING_WORD,
     EXPR_DOTTED,
     EXPR_INDEXED,
     EXPR_PASCAL,
     EXPR_JOINED,
     EXPR_EXACT,
     EXPR_ROOT,
     EXPR_ROOT_UPPER,
     EXPR_ROOT_SPACED,
     EXPR_UNKNOWN,
     EXPR_UNKNOWN_ROOT,
     EXPR_NO_KEY,
     EXPR_TOO_DEEP,
     EXPR_NESTED,
     EXPR_VOICE,
     EXPR_DIGIT,
     EXPR_EMPTY}

\* the characters of the keys of the datasets
KEY_CHARS ==
    [nr_band |-> <<"n", "r", "_", "b", "a", "n", "d">>,
     x |-> <<"x">>,
     zz |-> <<"z", "z">>,
     beta_image_3 |-> <<"b", "e", "t", "a", "_", "i", "m", "a", "g", "e", "_", "3">>,
     download_mbps |-> <<"d", "o", "w", "n", "l", "o", "a", "d", "_", "m", "b", "p", "s">>,
     voicetest_image_1 |-> <<"v", "o", "i", "c", "e", "t", "e", "s", "t", "_", "i", "m", "a", "g", "e", "_", "1">>,
     time |-> <<"t", "i", "m", "e">>]

\* a dataset: every variable empty but for the ones given
DatasetWith(given) ==
    [i \in {VAR_NAMES[j].name : j \in DOMAIN VAR_NAMES} |->
        IF i \in DOMAIN given THEN given[i] ELSE EmptyDict]

ResolveDatasets ==
    { DatasetWith([alpha_service |-> [nr_band |-> Num(3)]]),
      DatasetWith([alpha_service |-> [nr_band |-> Dict([x |-> Num(1)])],
                   voice_test |-> [voicetest_image_1 |-> Dict([time |-> Num(5)])]]),
      DatasetWith([beta_speedtest |-> [beta_image_3 |-> Dict([download_mbps |-> Num(7)])]]),
      DatasetWith(EmptyDict) }

InitCalls == IdlePipeline /\ IdlePure

\* data_processor.py:35-85 applied to an expression and a dataset
ApplyResolve ==
    /\ fn = ""
    /\ \E expr \in ResolveExprs, allowed_vars \in ResolveDatasets :
          /\ args' = <<expr, allowed_vars>>
          /\ ret' = resolve_expression_with_vars(expr, allowed_vars)
    /\ fn' = "resolve"
    /\ UNCHANGED pipelineVars

\* the texts the coercion is applied to
TEXT_GROUPED == <<"1", ",", "0", "2", "4">>
TEXT_DECIMAL == <<"1", "2", ".", "5", "0">>
TEXT_INTEGER == <<"4", "2">>
TEXT_NEGATIVE == <<"-", "7">>
TEXT_PLUS_DECIMAL == <<"+", "3", ".", "5">>
TEXT_BARE_FRACTION == <<".", "5">>
TEXT_TRAILING_POINT == <<"1", "2", ".">>
TEXT_PADDED == <<" ", "1", "2", " ">>
TEXT_LEADING_ZEROS == <<"0", "0", "7">>
TEXT_WORD == <<"a", "b", "c">>
TEXT_EXPONENT == <<"1", "e", "5">>
TEXT_TWO_POINTS == <<"1", ".", "2", ".", "3">>
TEXT_UNIT == <<"5", " ", "m", "s">>
TEXT_SIGN_ONLY == <<"-">>
TEXT_SEPARATOR_ONLY == <<",">>
TEXT_EMPTY == <<>>

CoerceTexts ==
    {TEXT_GROUPED, TEXT_DECIMAL, TEXT_INTEGER, TEXT_NEGATIVE, TEXT_PLUS_DECIMAL,
     TEXT_BARE_FRACTION, TEXT_TRAILING_POINT, TEXT_PADDED, TEXT_LEADING_ZEROS,
     TEXT_WORD, TEXT_EXPONENT, TEXT_TWO_POINTS, TEXT_UNIT, TEXT_SIGN_ONLY,
     TEXT_SEPARATOR_ONLY, TEXT_EMPTY}

\* the resolved values the write loop may meet
CoerceInputs ==
    {Null} \cup {Text(t) : t \in CoerceTexts}
           \cup {Num(n) : n \in 0..MaxValue}
           \cup {Float(25, 1), Bool(TRUE), Bool(FALSE)}
           \cup {Dict([x |-> Num(1)]), Dict(EmptyDict), Dict([x |-> Text(TEXT_DECIMAL)])}
           \cup {List(<<>>), List(<<Num(1), Null>>)}

\* excel_handler.py:168-188 applied to one resolved value
ApplyCellValue ==
    /\ fn = ""
    /\ \E resolved \in CoerceInputs :
          /\ args' = <<resolved>>
          /\ ret' = CellValue(resolved)
    /\ fn' = "coerce"
    /\ UNCHANGED pipelineVars

TEXT_TEN == <<"1", "0">>

\* the entries a speedtest map may hold
SpeedEntries ==
    {Dict([download_mbps |-> Num(10)]),
     Dict([download_mbps |-> Num(20), ping_ms |-> Num(5)]),
     Dict([download_mbps |-> Float(125, 1), upload_mbps |-> Null]),
     Dict([download_mbps |-> Bool(TRUE), ping_ms |-> Text(TEXT_WORD)]),
     Dict([download_mbps |-> Text(TEXT_TEN)]),
     Dict(EmptyDict),
     Num(3)}

SpeedImages == {"img1", "img2"}

SpeedMaps == UNION {[names -> SpeedEntries] : names \in SUBSET SpeedImages}

\* data_processor.py:159-175 applied to one speedtest map
ApplyAverages ==
    /\ fn = ""
    /\ \E speed_map \in SpeedMaps :
          /\ args' = <<speed_map>>
          /\ ret' = Dict(ComputeSpeedAverages(speed_map))
    /\ fn' = "averages"
    /\ UNCHANGED pipelineVars

\* the stores after the passes over a sheet with the service pair and one speed
\* test image of every sector and one voice image, each analysed completely
EndToEndDataset(a, b, c) ==
    DatasetWith(
        [alpha_service |-> Update(EmptyDict, FullService(a)),
         beta_service |-> Update(EmptyDict, FullService(b)),
         gamma_service |-> Update(EmptyDict, FullService(c)),
         alpha_speedtest |-> [alpha_image_3 |-> Dict(FullData("speed_test", a))],
         beta_speedtest |-> [beta_image_3 |-> Dict(FullData("speed_test", b))],
         gamma_speedtest |-> [gamma_image_3 |-> Dict(FullData("speed_test", c))],
         voice_test |-> [voicetest_image_1 |-> Dict(FullData("voice_call", c))]])

\* the three marked expressions of the template
END_TO_END_EXPRS == <<EXPR_EXACT, EXPR_NESTED, EXPR_VOICE>>

\* app.py:336-342 with excel_handler.py:168-188: each marked expression resolved
\* against the stores and the value of its cell set from the result
ApplyTemplate ==
    /\ fn = ""
    /\ \E a \in 1..MaxValue, b \in 1..MaxValue, c \in 1..MaxValue :
          /\ args' = <<END_TO_END_EXPRS, EndToEndDataset(a, b, c)>>
          /\ ret' = [i \in DOMAIN END_TO_END_EXPRS |->
                        CellValue(resolve_expression_with_vars(END_TO_END_EXPRS[i],
                                                               EndToEndDataset(a, b, c)))]
    /\ fn' = "template"
    /\ UNCHANGED pipelineVars

MaxCol == 20

\* the column indexes an anchor may carry, and the negative ones
ColumnIndexes == (0 - MaxCol)..MaxCol

\* excel_handler.py:16-26 applied to a column index
ApplyGetSector ==
    /\ fn = ""
    /\ \E col_index \in ColumnIndexes :
          /\ args' = <<col_index>>
          /\ ret' = Str(get_sector_from_col(col_index))
    /\ fn' = "sector"
    /\ UNCHANGED pipelineVars

NextCalls ==
    \/ ApplyGetSector
    \/ ApplyResolve
    \/ ApplyCellValue
    \/ ApplyAverages
    \/ ApplyTemplate

SpecCalls == InitCalls /\ [][NextCalls]_vars

\* C13: with alpha_service = {nr_band: 3}, each of AlphaService["NR_Band"],
\* alphaservice["nr_band"] and alpha_service["nr_band"] resolves to 3.
C13_ResolverInsensitive ==
    (/\ fn = "resolve"
     /\ args[1] \in {EXPR_PASCAL, EXPR_JOINED, EXPR_EXACT}
     /\ args[2]["alpha_service"] = [nr_band |-> Num(3)])
        => ret = Num(3)

IsQuote(c) == c = "\"" \/ c = "'"

\* the path of an expression as the specification writes it: segments ["key"]
RECURSIVE PathSegments(_)
PathSegments(t) ==
    IF t = <<>> THEN [ok |-> TRUE, segs |-> <<>>]
    ELSE IF Len(t) >= 4 /\ t[1] = "[" /\ IsQuote(t[2])
    THEN LET ends == {j \in 4..(Len(t) - 1) : IsQuote(t[j]) /\ t[j + 1] = "]"}
         IN  IF ends = {} THEN [ok |-> FALSE, segs |-> <<>>]
             ELSE LET j == CHOOSE x \in ends : \A y \in ends : x <= y
                      more == PathSegments(SubSeq(t, j + 2, Len(t)))
                  IN  [ok |-> more.ok, segs |-> <<SubSeq(t, 3, j - 1)>> \o more.segs]
    ELSE [ok |-> FALSE, segs |-> <<>>]

\* the root name of an expression and the text after it
RootOf(expr) == SubSeq(Strip(expr), 1, WordPrefixLen(Strip(expr)))

PathOf(expr) == Strip(SubSeq(Strip(expr), WordPrefixLen(Strip(expr)) + 1, Len(Strip(expr))))

\* the variables of the dataset that the root names, case and punctuation apart
RootsNamed(expr) ==
    {VAR_NAMES[i].name : i \in
        {j \in DOMAIN VAR_NAMES :
            RootOf(expr) # <<>>
            /\ normalize_name(VAR_NAMES[j].chars) = normalize_name(RootOf(expr))}}

\* the keys of the mapping that the segment names, case and punctuation apart
KeysNamed(mapping, seg) ==
    {k \in DOMAIN mapping : normalize_name(KEY_CHARS[k]) = normalize_name(seg)}

\* no value lies at the end of the path: a value that is no mapping while segments
\* remain, or a segment that names no key
RECURSIVE PathMisses(_, _)
PathMisses(value, segs) ==
    IF segs = <<>> THEN FALSE
    ELSE IF ~IsDict(value) THEN TRUE
    ELSE LET ks == KeysNamed(value.dict, segs[1])
         IN  ks = {} \/ \A k \in ks : PathMisses(value.dict[k], SubSeq(segs, 2, Len(segs)))

ResolutionMiss(expr, dataset) ==
    \/ RootsNamed(expr) = {}
    \/ /\ PathSegments(PathOf(expr)).ok
       /\ \A v \in RootsNamed(expr) :
             PathMisses(Dict(dataset[v]), PathSegments(PathOf(expr)).segs)

\* C14: when the root of an expression names no variable, a segment of its path
\* names no key, or a value on the path is no mapping while segments remain, the
\* resolver returns null.
C14_MissIsNull ==
    (fn = "resolve" /\ ResolutionMiss(args[1], args[2])) => ret = Null

\* the misses of each kind: an unknown root, a segment without key, a number
\* where a mapping is needed
C14_Witness ==
    /\ fn = "resolve"
    /\ ret = Null
    /\ args[2]["alpha_service"] = [nr_band |-> Num(3)]
    /\ args[1] \in {EXPR_UNKNOWN, EXPR_NO_KEY, EXPR_TOO_DEEP}
    /\ ResolutionMiss(args[1], args[2])

-----------------------------------------------------------------------------
(* Write-back *)

IntegerText(t) ==
    LET u == SelectSeq(t, LAMBDA c : c \notin {" ", ","})
    IN  /\ Strip(t) # <<>>
        /\ \A i \in DOMAIN Strip(t) : Strip(t)[i] # " "
        /\ Len(u) > 0
        /\ \A i \in DOMAIN u : u[i] \in DIGITS \/ (i = 1 /\ u[i] \in {"-", "+"})
        /\ \E i \in DOMAIN u : u[i] \in DIGITS

\* a text that is digits, one point and at least one digit after it
DecimalText(t) ==
    LET u == SelectSeq(t, LAMBDA c : c \notin {" ", ","})
        dots == {i \in DOMAIN u : u[i] = "."}
    IN  /\ \A i \in DOMAIN Strip(t) : Strip(t)[i] # " "
        /\ Cardinality(dots) = 1
        /\ \A i \in DOMAIN u : u[i] \in DIGITS \cup {"."} \/ (i = 1 /\ u[i] \in {"-", "+"})
        /\ u[Len(u)] \in DIGITS

\* C16: null is written as "NULL"; a text that is an integer once its
\* separators are removed is written as that integer ("1,024" as 1024); a text
\* that is a decimal is written as that number ("12.50" as 12.5); any other
\* text, and any number, is written unchanged; a mapping or a sequence is
\* written as its JSON text; every input has a written value.
C16_CoercionTotal ==
    fn = "coerce" =>
        LET v == args[1]
        IN  /\ v = Null => ret = Str("NULL")
            /\ v = Text(TEXT_GROUPED) => ret = Num(1024)
            /\ v = Text(TEXT_DECIMAL) => (ret = Float(125, 1) /\ ret = Float(1250, 2))
            /\ v = Text(TEXT_NEGATIVE) => ret = Num(0 - 7)
            /\ v = Text(TEXT_PADDED) => ret = Num(12)
            /\ v = Text(TEXT_BARE_FRACTION) => ret = Float(5, 1)
            /\ (IsText(v) /\ IntegerText(v.text)) => IsNumber(ret)
            /\ (IsText(v) /\ DecimalText(v.text)) => IsFloat(ret)
            /\ (IsText(v) /\ ~IntegerText(v.text) /\ ~DecimalText(v.text)) => ret = v
            /\ (IsNumber(v) \/ IsFloat(v)) => ret = v
            /\ (IsDict(v) \/ IsList(v)) => ret = JsonText(v)
            /\ ret # Null

C16_Witness ==
    /\ fn = "coerce"
    /\ args = <<Text(TEXT_GROUPED)>>
    /\ ret = Num(1024)

(***************************************************************************)
(* Averages of a speedtest map (SpecCalls)                                 *)
(***************************************************************************)

METRICS == {"download_mbps", "upload_mbps", "ping_ms"}

\* a number that is neither null nor a boolean
NumericValue(v) == IsNumber(v) \/ IsFloat(v)

\* the entries of a map that hold a numeric value for a metric
Contributing(speed_map, m) ==
    {x \in DOMAIN speed_map :
        IsDict(speed_map[x]) /\ NumericValue(Get(speed_map[x].dict, m))}

AsFloat(v) == IF IsNumber(v) THEN Float(v.num, 0) ELSE v

RECURSIVE NumericSum(_, _, _)
NumericSum(speed_map, names, m) ==
    IF names = {} THEN Float(0, 0)
    ELSE LET x == CHOOSE y \in names : TRUE
         IN  AddFloat(AsFloat(speed_map[x].dict[m]), NumericSum(speed_map, names \ {x}, m))

\* the mean of the numeric values of a metric, null when there is none
NumericMean(speed_map, m) ==
    IF Contributing(speed_map, m) = {} THEN Null
    ELSE Mean(NumericSum(speed_map, Contributing(speed_map, m), m),
              Cardinality(Contributing(speed_map, m)))

\* C17: each average of a speedtest map is the arithmetic mean over exactly
\* the entries that hold a non-null, non-boolean numeric value for the field,
\* and null when no entry does.
C17_MeanOfNumericEntries ==
    fn = "averages" =>
        \A m \in METRICS : ret.dict[m] = NumericMean(args[1], m)

(***************************************************************************)
(* The template end to end (SpecCalls)                                     *)
(***************************************************************************)

\* C18: with one complete service extraction and one speed test extraction
\* for each of alpha, beta and gamma and one voice extraction, the cells of
\* alpha_service["nr_band"], beta_speedtest["beta_image_3"]["download_mbps"]
\* and voice_test["voicetest_image_1"]["time"] receive the merged values, and
\* no cell receives "NULL".
C18_EndToEndResolved ==
    fn = "template" =>
        LET data == args[2]
        IN  /\ ret[1] = CellValue(data.alpha_service.nr_band)
            /\ ret[2] = CellValue(data.beta_speedtest.beta_image_3.dict.download_mbps)
            /\ ret[3] = CellValue(data.voice_test.voicetest_image_1.dict.time)
            /\ \A i \in DOMAIN ret : ret[i] # Str("NULL")

(***************************************************************************)
(* The sector of a column (SpecCalls)                                      *)
(***************************************************************************)

\* C19: the sector of an image depends on its column index alone: 0..3 is
\* alpha, 4..7 beta, 8..11 gamma, 12..17 voicetest, and every other index,
\* negative or 18 and above, is unknown; each index has exactly one sector.
C19_SectorOfColumn ==
    fn = "sector" =>
        LET c == args[1]
        IN  /\ c \in 0..3 => ret = Str("alpha")
            /\ c \in 4..7 => ret = Str("beta")
            /\ c \in 8..11 => ret = Str("gamma")
            /\ c \in 12..17 => ret = Str("voicetest")
            /\ (c < 0 \/ c >= 18) => ret = Str("unknown")
            /\ Cardinality({s \in ALL_SECTORS \cup {"unknown"} : ret = Str(s)}) = 1

C19_Witness ==
    /\ fn = "sector"
    /\ args = <<17>>
    /\ ret = Str("voicetest")

(***************************************************************************)
(* The keys of the service slots (Spec)                                    *)
(***************************************************************************)

StepIs(op) ==
    /\ pc = "passes"
    /\ status = "running"
    /\ step <= Len(schedule)
    /\ schedule[step].op = op

\* both paired images of the sector are among its images
BothPaired(s) ==
    /\ \E i \in DOMAIN images_by_sector[s] : images_by_sector[s][i].stem.n = 1
    /\ \E i \in DOMAIN images_by_sector[s] : images_by_sector[s][i].stem.n = 2

\* the slot is empty or holds a null
EmptyOrNull(slot) == slot = EmptyDict \/ \E k \in DOMAIN slot : slot[k] = Null

\* the invocations of the history cs in the pass ph, of the mode, for the sector
CallsOf(cs, ph, mode, s) ==
    {i \in DOMAIN cs : cs[i].phase = ph /\ cs[i].mode = mode /\ cs[i].sector = s}

SlotMissing(slot) ==
    \E i \in DOMAIN SERVICE_SCHEMA :
        SERVICE_SCHEMA[i] \notin DOMAIN slot \/ slot[SERVICE_SCHEMA[i]] = Null

\* the invocations of the history cs in the pass ph for the pair of the sector
PairCalls(cs, ph, s) ==
    {i \in DOMAIN cs : cs[i].phase = ph /\ cs[i].mode \in ServiceModes /\ cs[i].sector = s}

HasEntry(s, name) ==
    \/ name \in DOMAIN speedtest[s]
    \/ name \in DOMAIN video[s]
    \/ name \in DOMAIN voice_test

\* the entry of the image in the map m lacks a field of the schema of category t
EntryLacksField(m, name, t) ==
    /\ name \in DOMAIN m
    /\ IsDict(m[name])
    /\ \E i \in DOMAIN GENERIC_SCHEMAS[t] :
          \/ GENERIC_SCHEMAS[t][i] \notin DOMAIN m[name].dict
          \/ m[name].dict[GENERIC_SCHEMAS[t][i]] = Null

EntryIncomplete(s, name) ==
    \/ EntryLacksField(speedtest[s], name, "speed_test")
    \/ EntryLacksField(video[s], name, "video_test")
    \/ EntryLacksField(voice_test, name, "voice_call")

CarefulModes == {"careful_generic", "careful_voice"}

EntryCreated(m, n, name) ==
    /\ name \notin DOMAIN m
    /\ DOMAIN n = DOMAIN m \cup {name}
    /\ \A k \in DOMAIN m : n[k] = m[k]

\* the maps of the sectors other than s are as they were
OthersKept(m, n, s) == \A q \in DOMAIN m : q # s => n[q] = m[q]

DECLARED_TYPES == {Str("speed_test"), Str("video_test"), Str("voice_call")}

CarefulFirst(i) ==
    \/ /\ calls[i].mode = "careful_service"
       /\ ~\E j \in 1..(i - 1) :
              calls[j].mode = "service" /\ calls[j].sector = calls[i].sector
    \/ /\ calls[i].mode \in CarefulModes
       /\ ~\E j \in 1..(i - 1) :
              calls[j].mode \in StandardModes /\ calls[j].path.stem = calls[i].path.stem

Touched(m, n) == {name \in DOMAIN n : name \notin DOMAIN m \/ n[name] # m[name]}

\* a result of the step for the image declares the type t
ResultOfType(name, t) ==
    \E i \in DOMAIN last_calls' :
        last_calls'[i].path.stem = name /\ last_calls'[i].type = Str(t)

AVERAGE_KEYS ==
    [alpha |-> "average_alpha_speedtest",
     beta |-> "average_beta_speedtest",
     gamma |-> "average_gamma_speedtest"]

SECTOR_LETTERS ==
    [alpha |-> <<"a", "l", "p", "h", "a">>,
     beta |-> <<"b", "e", "t", "a">>,
     gamma |-> <<"g", "a", "m", "m", "a">>]

\* the text average_<sector>_speedtest
AverageExpr(s) ==
    <<"a", "v", "e", "r", "a", "g", "e", "_">> \o SECTOR_LETTERS[s]
        \o <<"_", "s", "p", "e", "e", "d", "t", "e", "s", "t">>

SectorPaths(s) == SelectSeq(image_paths, LAMBDA p : p.stem.sector = s)

\* the images of the sheet that lie in the columns of a sector and were saved
SavedOfSector(s) ==
    {i \in DOMAIN user_file.images :
        /\ user_file.images[i].ok
        /\ user_file.images[i].col \in FirstCol(s)..(FirstCol(s) + 3)}

C32_GroupingPartitions ==
    (pc \in {"passes", "done"} /\ image_paths # <<>>) =>
        /\ status # "raised"
        /\ \A s \in ALL_SECTORS :
              images_by_sector[s] = SelectSeq(image_paths, LAMBDA p : p.stem.sector = s)

(***************************************************************************)
(* The budget of analyzer invocations of one run (Spec)                    *)
(***************************************************************************)

\* the service-type invocations of the history for the pair of the sector
ServiceCalls(s) == {i \in DOMAIN calls : calls[i].mode \in ServiceModes /\ calls[i].sector = s}

\* the invocations of the history in the pass ph for the single image p
ImageCalls(ph, p) ==
    {i \in DOMAIN calls :
        calls[i].mode \notin ServiceModes /\ calls[i].path = p /\ calls[i].phase = ph}

\* the images for which the history holds an image invocation
AnalyzedImages == {calls[i].path : i \in {j \in DOMAIN calls : calls[j].mode \notin ServiceModes}}

HasQuotedSegment(t) ==
    \E i \in DOMAIN t, j \in DOMAIN t :
        /\ i + 2 < j /\ j < Len(t)
        /\ t[i] = "[" /\ IsQuote(t[i + 1])
        /\ IsQuote(t[j]) /\ t[j + 1] = "]"
        /\ \A k \in (i + 2)..(j - 1) : ~IsQuote(t[k])

\* C34: an expression whose identifier names a declared root variable and that
\* holds no bracketed quoted segment resolves to the entire value of that
\* variable, whatever text follows the identifier: none, whitespace or other
\* characters.
C34_RootWithoutSegments ==
    (/\ fn = "resolve"
     /\ RootsNamed(args[1]) # {}
     /\ ~HasQuotedSegment(args[1]))
        => \E v \in RootsNamed(args[1]) : ret = Dict(args[2][v])

=============================================================================
